---- MODULE Spec2Model ----
(***************************************************************************)
(* GFlow: the particle container SimData (src/GFlowSim/src/base/simdata.cpp) *)
(* as a state machine.  The arrays vdata, sdata and idata are modelled on   *)
(* the index range [0, _size): a slot at or beyond _size holds whatever the *)
(* allocator left there, so a read of such a slot is a nondeterministic     *)
(* choice and an access at or beyond _capacity aborts the program.          *)
(*                                                                         *)
(* The engine loop GFlow::run (src/GFlowSim/src/gflow.cpp), the time-step  *)
(* controller of Integrator (src/GFlowSim/src/base/integrator.cpp) and the *)
(* rebuild decision of DomainBase (src/GFlowSim/src/base/domainbase.cpp)   *)
(* work on that container.  A RealType is modelled in fixed point with a   *)
(* resolution of 1e-6, together with +infinity and NaN.                    *)
(***************************************************************************)
EXTENDS Integers, FiniteSets, Sequences, TLC

\* ------------------------------------------------------------------ bounds

\* The largest _size the model lets the arrays grow to.
MaxSize == 2
\* The number of global ids the model hands out before it stops adding.
MaxId == 4
\* The largest argument of reserve().
MaxReserve == 2
\* The largest argument of addParticle(int).
MaxBatch == 2

\* ------------------------------------------------------- program constants

\* The number of spatial dimensions the simulation was constructed with.
sim_dimensions == 2

\* The number of slots addParticle asks resize_owned for when the arrays are full.
ResizeChunk == 32

\* ------------------------------------------------------------------ inputs

Dims == 0 .. (sim_dimensions - 1)

\* A vector whose components all are c.
ConstVec(c) == [d \in Dims |-> c]

\* zeroVec: every component becomes zero.
zeroVec == ConstVec(0)

\* The particles a creator may hand to addParticle(x, v, sg, im, type).
ParticleInputs ==
    { [x |-> ConstVec(1), v |-> ConstVec(1), sg |-> 1, im |-> 1, type |-> 0],
      [x |-> ConstVec(2), v |-> ConstVec(0), sg |-> 2, im |-> 0, type |-> 1] }

\* The force vectors an interaction or a modifier may write through F(i).
ForceInputs == { ConstVec(1) }

\* ------------------------------------------------------------------- state

VARIABLES
    vdata,          \* vdata[0] = X, vdata[1] = V, vdata[2] = F; each [0.._size-1 -> [Dims -> Int]]
    sdata,          \* sdata[0] = Sg, sdata[1] = Im
    idata,          \* idata[0] = Type, idata[1] = Id
    _number,        \* the counter of particles
    _size,          \* the part of the arrays that may hold valid particles
    _capacity,      \* the allocated length of the arrays
    next_global_id, \* the global id the next added particle gets
    id_map,         \* global id -> local index
    remove_list,    \* the holes recorded by markForRemoval
    needs_remake,   \* raised when local ids were invalidated
    status,         \* "ok", "thrown" (move_particle threw) or "aborted" (out-of-range access)
    lastOp,         \* the operation that returned (or threw) last
    lastArg,        \* its index argument, -1 when it has none
    trip,           \* history: the progress of an add / mark / compact round trip
    gflow,          \* GFlow: running, requested_time, elapsed_time, total_time, iter, ...
    integrator,     \* Integrator: dt, adjust_dt, min_dt, max_dt, step_delay, step_count, ...
    handler,        \* DomainBase: last_update, update_delay, steps_since_last_remake, ...
    modifiers,      \* GFlow::modifiers, the list of modifiers
    dataMaster,     \* the DataMaster: its start-recording time and the number of its data objects
    pc,             \* where the driver or GFlow::run stands: "idle", "while", a call of the step, "post_integrate"
    trace,          \* history: the calls GFlow::run has made in the current step, in order
    hist            \* history: what the runs so far did (see NoHist)

storeVars == << vdata, sdata, idata, _number, _size, _capacity, next_global_id,
                id_map, remove_list, needs_remake, status, lastOp, lastArg, trip >>

engineVars == << gflow, integrator, handler, modifiers, dataMaster, pc, trace, hist >>

vars == << vdata, sdata, idata, _number, _size, _capacity, next_global_id,
           id_map, remove_list, needs_remake, status, lastOp, lastArg, trip,
           gflow, integrator, handler, modifiers, dataMaster, pc, trace, hist >>

\* --------------------------------------------------------------- accessors

X(i) == vdata[0][i]
V(i) == vdata[1][i]
F(i) == vdata[2][i]
Sg(i) == sdata[0][i]
Im(i) == sdata[1][i]
Type(i) == idata[0][i]
Id(i) == idata[1][i]

\* SimData::size() and SimData::number()
size == _number
number == _number

\* SimData::getLocalID: -1 means "no such particle"
getLocalID(global) == IF global \in DOMAIN id_map THEN id_map[global] ELSE -1

\* The empty arrays a fresh allocation leaves on [0, _size) = {}.
EmptyV == [k \in 0 .. 2 |-> [i \in {} |-> zeroVec]]
EmptyS == [k \in 0 .. 1 |-> [i \in {} |-> 0]]
EmptyI == [k \in 0 .. 1 |-> [i \in {} |-> 0]]

\* ----------------------------------------------------------------- history

\* No round trip is under way.
NoTrip == [stage |-> "none", idx |-> -1, size0 |-> 0, number0 |-> 0, id |-> -1]

\* The round trip after operation op with argument arg: an add made with no
\* pending holes starts one (the counters before the add and the id the
\* particle gets are recorded), a markForRemoval of the particle just added
\* continues it, a doParticleRemoval right after completes it, and every
\* other operation ends it.
TripAfter(op, arg) ==
    IF op \in {"addParticle", "addParticleDefault"} /\ remove_list = {}
    THEN [stage |-> "added", idx |-> arg, size0 |-> _size, number0 |-> _number,
          id |-> next_global_id]
    ELSE IF op = "markForRemoval" /\ trip.stage = "added" /\ arg = trip.idx
    THEN [trip EXCEPT !.stage = "marked"]
    ELSE IF op = "doParticleRemoval" /\ trip.stage = "marked"
    THEN [trip EXCEPT !.stage = "compacted"]
    ELSE NoTrip

\* What every operation of the store records when it ends; the store does
\* not touch the engine's objects.
Track(op, arg) ==
    /\ lastOp' = op
    /\ lastArg' = arg
    /\ trip' = TripAfter(op, arg)
    /\ UNCHANGED engineVars

\* ---------------------------------------------------------------- RealType

\* A finite RealType: n counts units of 1e-6.
Fin(n) == [k |-> "fin", n |-> n]

\* +infinity and NaN, as IEEE arithmetic produces them.
PosInf == [k |-> "inf", n |-> 0]
NaN == [k |-> "nan", n |-> 0]

isnan(a) == a.k = "nan"

\* a < b; every comparison with NaN is false.
FLess(a, b) ==
    /\ a.k = "fin"
    /\ \/ b.k = "inf"
       \/ b.k = "fin" /\ a.n < b.n

\* a == b
FEq(a, b) ==
    \/ a.k = "fin" /\ b.k = "fin" /\ a.n = b.n
    \/ a.k = "inf" /\ b.k = "inf"

\* a <= b
FLeq(a, b) == FLess(a, b) \/ FEq(a, b)

\* a + b, for values that are not -infinity.
FAdd(a, b) ==
    IF isnan(a) \/ isnan(b) THEN NaN
    ELSE IF a.k = "inf" \/ b.k = "inf" THEN PosInf
    ELSE Fin(a.n + b.n)

\* std::min(a, b): b when b < a, and a otherwise (a NaN first argument is returned).
FMin(a, b) == IF FLess(b, a) THEN b ELSE a

\* The floor of the square root of x, searched in [lo, hi].
RECURSIVE ISqrt(_, _, _)
ISqrt(x, lo, hi) ==
    IF lo >= hi THEN lo
    ELSE LET mid == (lo + hi + 1) \div 2
         IN  IF mid * mid <= x THEN ISqrt(x, mid, hi) ELSE ISqrt(x, lo, mid - 1)

\* sqrt(a) for a >= 0, to a resolution of 1e-5.
FSqrt(a) == IF a.k = "fin" THEN Fin(ISqrt(a.n * 10000, 0, 46340) * 10) ELSE a

\* 10 * a
TenTimes(a) == IF a.k = "fin" THEN Fin(10 * a.n) ELSE a

\* num / (m * steps) where m is a maximum velocity or acceleration in units
\* of 0.01 (or +infinity) and steps an integer >= 1: x / 0 is +infinity for
\* x > 0 and NaN for x = 0, and x / infinity is 0.
FOver(num, m, steps) ==
    IF isnan(num) \/ isnan(m) THEN NaN
    ELSE IF m.k = "inf" THEN (IF num.k = "inf" THEN NaN ELSE Fin(0))
    ELSE IF num.k = "inf" THEN PosInf
    ELSE IF m.n = 0 THEN (IF num.n = 0 THEN NaN ELSE PosInf)
    ELSE Fin((num.n * 100) \div (m.n * steps))

\* 0.9*dt + 0.1*dt_c
Smoothed(dt, dt_c) ==
    IF isnan(dt) \/ isnan(dt_c) THEN NaN
    ELSE IF dt.k = "inf" \/ dt_c.k = "inf" THEN PosInf
    ELSE Fin((9 * dt.n + dt_c.n) \div 10)

\* ---------------------------------------------------------------- Integrator

\* Integrator::Integrator: dt(0.0001), adjust_dt(true), min_dt(1e-6),
\* max_dt(0.002), target_steps(20), step_delay(10), step_count(0),
\* use_v(true), use_a(false), characteristic_length(0.05).
IntegratorNew ==
    [ dt |-> Fin(100), adjust_dt |-> TRUE, min_dt |-> Fin(1), max_dt |-> Fin(2000),
      target_steps |-> 20, step_delay |-> 10, step_count |-> 0,
      use_v |-> TRUE, use_a |-> FALSE, characteristic_length |-> Fin(50000) ]

\* The length one unit of the store's Sg stands for: 0.1.
SgUnit == 100000

\* The sum of Sg(n) over the slots n < size() with Type(n) >= 0.
RECURSIVE SumSg(_, _, _)
SumSg(sd, idt, n) ==
    IF n <= 0 THEN 0
    ELSE SumSg(sd, idt, n - 1)
           + (IF idt[0][n - 1] < 0 THEN 0 ELSE sd[0][n - 1] * SgUnit)

\* Integrator::pre_integrate on the integrator record it: the step count is
\* set so that the first pre_step adjusts, the characteristic length becomes
\* the sum of the radii of the live slots below size() divided by number()
\* (0/0 is NaN), and dt becomes min_dt when dt is adjusted.
Integrator_pre_integrate(it, sd, idt, sz, num) ==
    LET total == SumSg(sd, idt, sz)
        len == IF num = 0 THEN (IF total = 0 THEN NaN ELSE PosInf)
               ELSE Fin(total \div num)
    IN  [it EXCEPT !.step_count = it.step_delay,
                   !.characteristic_length = len,
                   !.dt = IF it.adjust_dt THEN it.min_dt ELSE @]

\* The clamp at the end of pre_step: a NaN passes both tests.
Clamped(dt, lo, hi) ==
    IF FLess(hi, dt) THEN hi
    ELSE IF FLess(dt, lo) THEN lo
    ELSE dt

\* A variant of Gate that lets pre_step adjust one call too early.
GateEarly(count, delay) == count + 1 < delay

\* The test pre_step makes to skip a call: step_count < step_delay.
Gate(count, delay) == count < delay

\* A variant of NewDt that takes a lower candidate through the smoothing too.
NewDtAlwaysSmoothed(dt, dt_c) == Smoothed(dt, dt_c)

\* dt = dt_c < dt ? dt_c : 0.9*dt + 0.1*dt_c
NewDt(dt, dt_c) == IF FLess(dt_c, dt) THEN dt_c ELSE Smoothed(dt, dt_c)

\* Integrator::pre_step on the integrator record it, where mv and ma are
\* what get_max_velocity() and get_max_acceleration() return.  The result
\* holds the integrator, whether the call passed the gate (`adjusted`) and
\* whether it threw NanValue.
Integrator_pre_step(it, mv, ma) ==
    IF ~it.adjust_dt
    THEN [it |-> it, adjusted |-> FALSE, thrown |-> FALSE]
    ELSE IF Gate(it.step_count, it.step_delay)
    THEN [it |-> [it EXCEPT !.step_count = @ + 1], adjusted |-> FALSE, thrown |-> FALSE]
    ELSE LET it0 == [it EXCEPT !.step_count = 0]
             maxV == IF it.use_v THEN mv ELSE Fin(-100)
             maxA == IF it.use_a THEN ma ELSE Fin(-100)
             dt_v == IF it.use_v
                     THEN FOver(it.characteristic_length, maxV, it.target_steps)
                     ELSE Fin(1000000)
             dt_a == IF it.use_a
                     THEN FOver(TenTimes(FSqrt(it.characteristic_length)), maxA, it.target_steps)
                     ELSE Fin(1000000)
             dt_c == FMin(dt_v, dt_a)
         IN  IF FEq(maxV, Fin(0)) /\ FEq(maxA, Fin(0))
             THEN [it |-> it0, adjusted |-> TRUE, thrown |-> FALSE]
             ELSE IF isnan(maxV) \/ isnan(maxA)
             THEN [it |-> it0, adjusted |-> TRUE, thrown |-> TRUE]
             ELSE [it |-> [it0 EXCEPT !.dt = Clamped(NewDt(it.dt, dt_c), it.min_dt, it.max_dt)],
                   adjusted |-> TRUE, thrown |-> FALSE]

\* --------------------------------------------------------------------- GFlow

\* GFlow::GFlow: running(false), useForces(true), requested_time(0),
\* total_requested_time(0), elapsed_time(0), total_time(0), iter(0), and an
\* empty list of interactions (`interactions` is its length).
GFlowNew ==
    [ running |-> FALSE, useForces |-> TRUE, requested_time |-> Fin(0),
      total_requested_time |-> Fin(0), elapsed_time |-> Fin(0),
      total_time |-> Fin(0), iter |-> 0, interactions |-> 0 ]

\* GFlow::run, its first lines: a positive argument becomes the requested
\* time, and the request is recorded.
RunRequest(g, rt) ==
    LET req == IF FLess(Fin(0), rt) THEN rt ELSE g.requested_time
    IN  [g EXCEPT !.requested_time = req,
                  !.total_requested_time = FAdd(@, req)]

\* GFlow::run with no particles: the request is added to both clocks and the
\* function returns.
RunEmpty(g) ==
    [g EXCEPT !.elapsed_time = FAdd(@, g.requested_time),
              !.total_time = FAdd(@, g.requested_time)]

\* GFlow::run, "Pre-integrate": running = true, elapsed_time = 0, iter = 0.
RunStart(g) == [g EXCEPT !.running = TRUE, !.elapsed_time = Fin(0), !.iter = 0]

\* The loop test of GFlow::run: running && requested_time > 0.
WhileTest(g) == g.running /\ FLess(Fin(0), g.requested_time)

\* "if (requested_time <= elapsed_time) running = false", made at the start
\* of the post-step phase, before elapsed_time is advanced.
TimeCheck(g) ==
    IF FLeq(g.requested_time, g.elapsed_time) THEN [g EXCEPT !.running = FALSE] ELSE g

\* total_time - dt == total_time: with exact sums, for dt = 0 and for an
\* infinite total_time with a finite dt.
Absorbed(total, dt) ==
    \/ total.k = "fin" /\ dt.k = "fin" /\ dt.n = 0
    \/ total.k = "inf" /\ dt.k = "fin"

\* The "Timer updates" of GFlow::run: ++iter, both clocks advance by dt, and
\* the run is stopped when total_time did not advance.
Advance(g, dt) ==
    LET total == FAdd(g.total_time, dt)
    IN  [g EXCEPT !.iter = @ + 1,
                  !.elapsed_time = FAdd(@, dt),
                  !.total_time = total,
                  !.running = IF Absorbed(total, dt) THEN FALSE ELSE @]

\* GFlow::run, "Post-integrate": requested_time = 0.
RunEnd(g) == [g EXCEPT !.requested_time = Fin(0)]

\* ---------------------------------------------------------------- DomainBase

\* DomainBase's member initialisers: last_check = -1, last_update = -1,
\* update_delay = 1e-4, max_update_delay = 0.025, update_decision_type = 0,
\* update_delay_steps = 8; motion_factor and mv_ratio_tolerance (in units
\* of 0.001) are 1.
DomainNew ==
    [ last_check |-> Fin(-1000000), last_update |-> Fin(-1000000),
      update_delay |-> Fin(100), max_update_delay |-> Fin(25000),
      update_decision_type |-> 0, update_delay_steps |-> 8,
      steps_since_last_remake |-> 0, number_of_remakes |-> 0,
      motion_factor |-> 1000, mv_ratio_tolerance |-> 1000,
      missed_target |-> 0 ]

\* DomainBase::pre_integrate: the time points are reset.
DomainBase_pre_integrate(h) ==
    [h EXCEPT !.last_check = Fin(-1000000),
              !.last_update = Fin(-1000000),
              !.update_delay = Fin(100)]

\* a - b for finite a and b
FSub(a, b) == IF isnan(a) \/ isnan(b) THEN NaN ELSE Fin(a.n - b.n)

\* DomainBase::check_needs_remake at time now, where ratio is
\* max_motion / skin_depth in units of 0.001.  The result holds the domain
\* and the answer.
check_needs_remake(h, now, ratio) ==
    LET h1 == [h EXCEPT !.last_check = now]
        since == FSub(now, h.last_update)
        limit == (h.mv_ratio_tolerance * h.motion_factor) \div 1000
        delay == IF since.k # "fin" THEN since
                 ELSE IF ratio = 0 THEN (IF since.n = 0 THEN NaN ELSE PosInf)
                 ELSE Fin((limit * since.n) \div ratio)
    IN  IF FLess(h.max_update_delay, since)
        THEN [h |-> h1, remake |-> TRUE]
        ELSE [h |-> [h1 EXCEPT !.update_delay = FMin(h.max_update_delay, delay),
                               !.missed_target = IF ratio > h.motion_factor THEN @ + 1 ELSE @],
              remake |-> ratio > limit]

\* The bookkeeping of DomainBase::construct at time now.
Constructed(h, now) ==
    [h EXCEPT !.last_update = now,
              !.steps_since_last_remake = 0,
              !.number_of_remakes = @ + 1]

\* DomainBase::pre_forces at time now with num particles, the store's flag
\* remake, n interactions and the motion ratio the check would measure.  The
\* result holds the domain and whether construct() is called.
DomainBase_pre_forces(h, now, num, remake, n, ratio) ==
    LET h1 == [h EXCEPT !.steps_since_last_remake = @ + 1]
        chk == check_needs_remake(h1, now, ratio)
    IN  IF num < 1 THEN [h |-> h1, construct |-> FALSE]
        ELSE IF remake THEN [h |-> h1, construct |-> TRUE]
        ELSE IF h1.update_decision_type = 0
                /\ FLess(h1.update_delay, FSub(now, h1.last_update))
        THEN (IF n > 0 THEN [h |-> chk.h, construct |-> chk.remake]
              ELSE [h |-> h1, construct |-> FALSE])
        ELSE IF h1.update_decision_type = 1
                /\ h1.update_delay_steps <= h1.steps_since_last_remake
        THEN [h |-> h1, construct |-> TRUE]
        ELSE [h |-> h1, construct |-> FALSE]

\* ----------------------------------------------------------------- modifiers

\* A modifier of the list: Flow (src/GFlowSim/src/modifiers/flow.cpp), or a
\* plug-in whose hooks call the engine's and the store's public functions.
Modifier(id, kind) == [id |-> id, kind |-> kind, remove |-> FALSE]

\* The width of the simulation bounds on every axis.
BoundsWidth == 4

\* Flow::pre_forces, one component: f -= drag * (mask*target - v) * sg with
\* drag = 0.1, mask = 0 on axis 0 and 1 elsewhere, and
\* target = 1 - 4*((x - 0.5*width)/width)^2.  A force is counted in units
\* of 1 / (100 * width^2) (one unit of Sg is 0.1), which makes every term
\* an integer.
FlowForce(x, v, sg, d) ==
    LET w2 == BoundsWidth * BoundsWidth
        target == w2 - (2 * x - BoundsWidth) * (2 * x - BoundsWidth)
        mask == IF d = 0 THEN 0 ELSE 1
    IN  (mask * target - v * w2) * sg

\* Flow::pre_forces on the vector data: every component of the slots below
\* size() is updated, whatever the slot's Type.
Flow_pre_forces(vd, sd, n) ==
    [vd EXCEPT ![2] = [i \in DOMAIN @ |-> [d \in Dims |->
        IF i < n THEN @[i][d] - FlowForce(vd[0][i][d], vd[1][i][d], sd[0][i], d)
        ELSE @[i][d]]]]

\* ------------------------------------------------------------ engine history

\* The ids of the modifiers of the scenario.
ModifierIds == {1, 2}

\* Nothing has been recorded for a modifier.
NotFlagged == [run |-> 0, iter |-> -1, call |-> ""]

\* The history of the engine at construction: no run was asked for.  `runs`
\* counts the calls of run and `asked` is the argument of the last one;
\* `looped` says the last run entered its step loop and `postRan` that its
\* post_integrate hooks ran; `stopCall` and `stopIter` are the call and the
\* step in which a collaborator set running to false in this run, and
\* `stopElapsed` and `stopTotal` the two clocks at that moment;
\* `flagged` is where each modifier set its remove flag; `pending` says
\* the store raised needs_remake and no construct() has run since;
\* `expectF` is the force array after the modifiers' pre_forces with every
\* later addition applied; `start` is what the first run started from,
\* `steps` counts the steps of all runs and `runSteps` lists the steps each
\* completed run took; `obsPre` and `obsPost` count the data objects that
\* received pre_integrate and post_integrate in this run.
NoHist ==
    [ runs |-> 0, asked |-> Fin(0), looped |-> FALSE, postRan |-> FALSE,
      stopCall |-> "", stopIter |-> -1, stopElapsed |-> Fin(0), stopTotal |-> Fin(0),
      flagged |-> [id \in ModifierIds |-> NotFlagged],
      pending |-> FALSE,
      expectF |-> [i \in {} |-> zeroVec],
      start |-> [set |-> FALSE], steps |-> 0, runSteps |-> << >>,
      obsPre |-> 0, obsPost |-> 0 ]

\* DataMaster::DataMaster: no data objects; the start-recording time is 0
\* until setStartRecTime is called.
DataMasterNew == [ startRecTime |-> Fin(0), dataObjects |-> 0 ]

\* DataMaster::pre_integrate: the number of data objects whose
\* pre_integrate is called ("Always allow preintegrate step to happen").
DataMaster_pre_integrate(dm) == dm.dataObjects

\* DataMaster::post_integrate at the elapsed time `now`: the number of data
\* objects whose post_integrate is called.
DataMaster_post_integrate(dm, now) ==
    IF FLess(now, dm.startRecTime) THEN 0 ELSE dm.dataObjects

\* The engine's objects as their constructors leave them.
ConstructedEngine ==
    /\ gflow = GFlowNew
    /\ integrator = IntegratorNew
    /\ handler = DomainNew
    /\ modifiers = << >>
    /\ dataMaster = DataMasterNew
    /\ pc = "idle"
    /\ trace = << >>
    /\ hist = NoHist

\* -------------------------------------------------------------------- init

Init ==
    /\ vdata = EmptyV
    /\ sdata = EmptyS
    /\ idata = EmptyI
    /\ _number = 0
    /\ _size = 0
    /\ _capacity = 0
    /\ next_global_id = 0
    /\ id_map = [g \in {} |-> 0]
    /\ remove_list = {}
    /\ needs_remake = FALSE
    /\ status = "ok"
    /\ lastOp = "construct"
    /\ lastArg = -1
    /\ trip = NoTrip
    /\ ConstructedEngine

\* ----------------------------------------------------------------- helpers

\* The function f extended (or overwritten) at index i.
Ext(f, i, val) == [j \in (DOMAIN f) \cup {i} |-> IF j = i THEN val ELSE f[j]]

\* resize_owned(num): the arrays are reallocated with num more slots and the
\* first _size entries are transferred, so only the capacity changes.
resize_owned(cap, num) == cap + num

\* A variant of NeedsResize that is off by one: a full array is not grown.
NeedsResizeOffByOne(sz, cap) == sz > cap

\* The test addParticle(x, v, sg, im, type) makes before it writes slot _size.
NeedsResize(sz, cap) == sz >= cap

\* The test addParticle() makes before it writes slot _size.
NeedsResizeDefault(sz, cap) == sz + 1 > cap

\* The test addParticle(num) makes before it writes num slots from _size on.
NeedsResizeBatch(sz, num, cap) == sz + num > cap

\* A variant of NextId that forgets the increment.
NextIdReused(g) == g

\* next_global_id++ : the id after g.
NextId(g) == g + 1

\* The store with one particle written at slot st.size (the body shared by
\* the three addParticle overloads: fill the slot, give it the next global
\* id, count it).  The id map is not touched.
Place(st, x, v, sg, im, type) ==
    [ vdata |-> [st.vdata EXCEPT ![0] = Ext(@, st.size, x),
                                  ![1] = Ext(@, st.size, v),
                                  ![2] = Ext(@, st.size, zeroVec)],
      sdata |-> [st.sdata EXCEPT ![0] = Ext(@, st.size, sg),
                                  ![1] = Ext(@, st.size, im)],
      idata |-> [st.idata EXCEPT ![0] = Ext(@, st.size, type),
                                  ![1] = Ext(@, st.size, st.next)],
      next |-> NextId(st.next),
      number |-> st.number + 1,
      size |-> st.size + 1 ]

\* The store fields the addParticle overloads write, as a record.
Store == [ vdata |-> vdata, sdata |-> sdata, idata |-> idata,
           next |-> next_global_id, number |-> _number, size |-> _size ]

\* num default particles placed one after the other.
RECURSIVE PlaceDefaults(_, _)
PlaceDefaults(st, num) ==
    IF num <= 0 THEN st
    ELSE PlaceDefaults(Place(st, zeroVec, zeroVec, 0, 0, 0), num - 1)

\* The assignment of a store record to the variables.
Commit(st) ==
    /\ vdata' = st.vdata
    /\ sdata' = st.sdata
    /\ idata' = st.idata
    /\ next_global_id' = st.next
    /\ _number' = st.number
    /\ _size' = st.size

\* ----------------------------------------------------------------- reserve

\* SimData::reserve(num): every array is freed and allocated anew with num
\* slots; _number and _size are reset; the id map, the remove list and
\* next_global_id are left as they are.
reserve(num) ==
    /\ status = "ok"
    /\ vdata' = EmptyV
    /\ sdata' = EmptyS
    /\ idata' = EmptyI
    /\ _number' = 0
    /\ _size' = 0
    /\ _capacity' = num
    /\ Track("reserve", num)
    /\ UNCHANGED << next_global_id, id_map, remove_list, needs_remake, status >>

\* ------------------------------------------------------------ addParticle

\* SimData::addParticle(): one default particle.
addParticleDefault ==
    /\ status = "ok"
    /\ _size + 1 <= MaxSize
    /\ next_global_id + 1 <= MaxId
    /\ _capacity' = IF NeedsResizeDefault(_size, _capacity)
                    THEN resize_owned(_capacity, ResizeChunk) ELSE _capacity
    /\ Commit(Place(Store, zeroVec, zeroVec, 0, 0, 0))
    /\ Track("addParticleDefault", _size)
    /\ UNCHANGED << id_map, remove_list, needs_remake, status >>

\* SimData::addParticle(int num): num default particles.
addParticleBatch(num) ==
    /\ status = "ok"
    /\ _size + num <= MaxSize
    /\ next_global_id + num <= MaxId
    /\ IF num <= 0
       THEN UNCHANGED << vdata, sdata, idata, next_global_id, _number, _size, _capacity >>
       ELSE /\ _capacity' = IF NeedsResizeBatch(_size, num, _capacity)
                            THEN resize_owned(_capacity, num + _size - _capacity + ResizeChunk)
                            ELSE _capacity
            /\ Commit(PlaceDefaults(Store, num))
    /\ Track("addParticleBatch", num)
    /\ UNCHANGED << id_map, remove_list, needs_remake, status >>

\* SimData::addParticle(x, v, sg, im, type).
addParticle(p) ==
    /\ status = "ok"
    /\ _size + 1 <= MaxSize
    /\ next_global_id + 1 <= MaxId
    /\ _capacity' = IF NeedsResize(_size, _capacity)
                    THEN resize_owned(_capacity, ResizeChunk) ELSE _capacity
    /\ Commit(Place(Store, p.x, p.v, p.sg, p.im, p.type))
    /\ Track("addParticle", _size)
    /\ UNCHANGED << id_map, remove_list, needs_remake, status >>

\* ---------------------------------------------------------- markForRemoval

\* A variant of MarkClear that zeroes the velocity only.
MarkClearVelocityOnly(vd, id) == [vd EXCEPT ![1][id] = zeroVec]

\* The vector data after markForRemoval(id): V(id) and F(id) are zeroed.
MarkClear(vd, id) == [vd EXCEPT ![1][id] = zeroVec, ![2][id] = zeroVec]

\* The integer data after markForRemoval(id): Type(id) = -1 and Id(id) = -1.
MarkInts(idt, id) == [idt EXCEPT ![0][id] = -1, ![1][id] = -1]

\* id_map.erase(g)
MapErase(map, g) == [k \in (DOMAIN map) \ {g} |-> map[k]]

\* SimData::markForRemoval(id), for a local index id in [0, _size).
markForRemoval(id) ==
    /\ status = "ok"
    /\ id \in 0 .. (_size - 1)
    /\ IF Type(id) < 0
       THEN UNCHANGED << vdata, idata, id_map, remove_list >>
       ELSE /\ remove_list' = remove_list \cup {id}
            /\ id_map' = MapErase(id_map, Id(id))
            /\ idata' = MarkInts(idata, id)
            /\ vdata' = MarkClear(vdata, id)
    /\ Track("markForRemoval", id)
    /\ UNCHANGED << sdata, _number, _size, _capacity, next_global_id, needs_remake, status >>

\* -------------------------------------------------------- doParticleRemoval

\* The least element of a non-empty set of integers (std::set iterates in
\* ascending order).
SetMin(S) == CHOOSE m \in S : \A k \in S : m <= k

\* SimData::move_particle(src, dst) on a record of the fields it touches:
\* the data of src is copied over dst, then the global id of src is looked
\* up in the id map and remapped; when it is not a key, the function throws
\* after the copy and before needs_remake is raised.
move_particle(st, src, dst) ==
    LET gs == st.idata[1][src]
        gd == st.idata[1][dst]
        overwrite == st.idata[0][dst] > -1
        num1 == IF overwrite THEN st.number - 1 ELSE st.number
        map1 == IF overwrite THEN MapErase(st.id_map, gd) ELSE st.id_map
        vd1 == [k \in DOMAIN st.vdata |-> [st.vdata[k] EXCEPT ![dst] = st.vdata[k][src]]]
        sd1 == [k \in DOMAIN st.sdata |-> [st.sdata[k] EXCEPT ![dst] = st.sdata[k][src]]]
        id1 == [k \in DOMAIN st.idata |-> [st.idata[k] EXCEPT ![dst] = st.idata[k][src]]]
        found == gs \in DOMAIN map1
    IN  [ vdata |-> vd1, sdata |-> sd1, idata |-> id1, number |-> num1,
          id_map |-> IF found THEN [map1 EXCEPT ![gs] = dst] ELSE map1,
          needs_remake |-> IF found THEN TRUE ELSE st.needs_remake,
          thrown |-> ~found,
          removed |-> st.removed ]

\* The inner while loop of doParticleRemoval: step count_back down over the
\* holes that lie above id.
RECURSIVE SkipHoles(_, _, _)
SkipHoles(holes, count_back, id) ==
    IF count_back \in holes /\ count_back > id
    THEN SkipHoles(holes, count_back - 1, id)
    ELSE count_back

\* The second loop of doParticleRemoval over the holes in `rest` (ascending):
\* fill each hole with the last particle that is no hole, and stop when the
\* tail pointer meets the hole or when move_particle throws.
RECURSIVE FillHoles(_, _, _, _)
FillHoles(st, holes, rest, count_back) ==
    IF rest = {} \/ st.thrown THEN st
    ELSE LET id == SetMin(rest)
             cb == SkipHoles(holes, count_back - 1, id)
             st1 == [st EXCEPT !.removed = @ + 1]
         IN  IF cb > id
             THEN FillHoles(move_particle(st1, cb, id), holes, rest \ {id}, cb)
             ELSE st1

\* The first loop of doParticleRemoval on the slots of [0, _size): every
\* listed slot gets Type -1.
TombstoneAll(idt, holes) ==
    [idt EXCEPT ![0] = [i \in DOMAIN @ |-> IF i \in holes THEN -1 ELSE @[i]]]

\* SimData::doParticleRemoval().  A listed index at or beyond _size is left
\* over from before a reserve(): its Type is read from a slot nothing was
\* written to (`garbage` is the set of those that read as not -1), and an
\* index at or beyond _capacity lies outside the arrays, where the access may
\* also end the program.
doParticleRemoval ==
    /\ status = "ok"
    /\ Track("doParticleRemoval", -1)
    /\ IF remove_list = {} \/ _number = 0
       THEN UNCHANGED << vdata, sdata, idata, _number, id_map, remove_list,
                         needs_remake, status >>
       ELSE \/ /\ \E id \in remove_list : id >= _capacity
               /\ status' = "aborted"
               /\ UNCHANGED << vdata, sdata, idata, _number, id_map, remove_list,
                               needs_remake >>
            \/ \E garbage \in SUBSET {id \in remove_list : id >= _size} :
                 LET inside == {id \in remove_list : id < _size}
                     need_removal == Cardinality({id \in inside : Type(id) # -1})
                                       + Cardinality(garbage)
                     st0 == [ vdata |-> vdata, sdata |-> sdata,
                              idata |-> TombstoneAll(idata, inside),
                              number |-> _number, id_map |-> id_map,
                              needs_remake |-> needs_remake,
                              thrown |-> FALSE, removed |-> 0 ]
                     st == FillHoles(st0, remove_list, remove_list, _size)
                 IN  /\ vdata' = st.vdata
                     /\ sdata' = st.sdata
                     /\ idata' = st.idata
                     /\ id_map' = st.id_map
                     /\ IF st.thrown
                        THEN /\ status' = "thrown"
                             /\ _number' = st.number
                             /\ needs_remake' = st.needs_remake
                             /\ UNCHANGED remove_list
                        ELSE /\ status' = "ok"
                             /\ _number' = st.number - need_removal
                             /\ remove_list' = {}
                             /\ needs_remake' = (st.removed > 0 \/ st.needs_remake)
    /\ UNCHANGED << _size, _capacity, next_global_id >>

\* ------------------------------------------------------------------ clearF

\* The array whose first n contiguous components are set to zero.
ZeroPrefix(arr, n) ==
    [i \in DOMAIN arr |-> [d \in Dims |->
        IF i * sim_dimensions + d < n THEN 0 ELSE arr[i][d]]]

\* The vdata entry clearF() writes to.
ClearFEntry == 1

\* SimData::clearF()
clearF ==
    /\ status = "ok"
    /\ vdata' = [vdata EXCEPT ![ClearFEntry] = ZeroPrefix(@, _size * sim_dimensions)]
    /\ Track("clearF", -1)
    /\ UNCHANGED << sdata, idata, _number, _size, _capacity, next_global_id,
                    id_map, remove_list, needs_remake, status >>

\* A collaborator writes the force of a live particle through F(i).
WriteF(i, f) ==
    /\ status = "ok"
    /\ i \in 0 .. (_size - 1)
    /\ Type(i) >= 0
    /\ vdata' = [vdata EXCEPT ![2][i] = f]
    /\ Track("WriteF", i)
    /\ UNCHANGED << sdata, idata, _number, _size, _capacity, next_global_id,
                    id_map, remove_list, needs_remake, status >>

\* ----------------------------------------------------------- specification

StoreNext ==
    \/ \E num \in 0 .. MaxReserve : reserve(num)
    \/ addParticleDefault
    \/ \E num \in 0 .. MaxBatch : addParticleBatch(num)
    \/ \E p \in ParticleInputs : addParticle(p)
    \/ \E id \in 0 .. (MaxSize - 1) : markForRemoval(id)
    \/ doParticleRemoval
    \/ clearF
    \/ \E i \in 0 .. (MaxSize - 1), f \in ForceInputs : WriteF(i, f)

StoreSpec == Init /\ [][StoreNext]_vars

\* ------------------------------------------------------------- engine bounds

\* Steps one run may take.
MaxIter == 3
\* Calls of GFlow::run on one engine.
MaxRuns == 2

\* ---------------------------------------------------------------- step calls

\* The calls one pass of the while loop of GFlow::run makes, in the order of
\* the code, for an engine with one integrator, no bodies, no bonded
\* interactions and one process.
StepCalls ==
    << "modifiers.pre_step", "integrator.pre_step", "dataMaster.pre_step",
       "handler.pre_step",
       "modifiers.pre_exchange", "integrator.pre_exchange",
       "dataMaster.pre_exchange", "handler.pre_exchange",
       "modifiers.pre_forces", "integrator.pre_forces", "dataMaster.pre_forces",
       "handler.pre_forces",
       "clearForces", "boundaryForces", "interact", "handleModifiers",
       "modifiers.post_forces", "updateHaloParticles", "integrator.post_forces",
       "dataMaster.post_forces", "handler.post_forces",
       "timeCheck",
       "modifiers.post_step", "integrator.post_step", "dataMaster.post_step",
       "handler.post_step",
       "advance" >>

\* The position of call c in the step.
CallIndex(c) == CHOOSE i \in 1 .. Len(StepCalls) : StepCalls[i] = c

\* Where control is after call c: at the next call, or back at the loop test.
NextCall(c) ==
    IF CallIndex(c) = Len(StepCalls) THEN "while" ELSE StepCalls[CallIndex(c) + 1]

\* The hooks the engine delivers to every modifier of its list.
ModifierCalls ==
    { "modifiers.pre_step", "modifiers.pre_exchange", "modifiers.pre_forces",
      "modifiers.post_forces", "modifiers.post_step" }

\* The hooks of the integrator that the base class leaves empty.
IntegratorCalls ==
    { "integrator.pre_exchange", "integrator.pre_forces",
      "integrator.post_forces", "integrator.post_step" }

\* The hooks of the DataMaster (the observers).
DataMasterCalls ==
    { "dataMaster.pre_step", "dataMaster.pre_exchange", "dataMaster.pre_forces",
      "dataMaster.post_forces", "dataMaster.post_step" }

\* The hooks of the domain that DomainBase leaves empty.
HandlerCalls ==
    { "handler.pre_step", "handler.pre_exchange", "handler.post_forces",
      "handler.post_step" }

\* ----------------------------------------------------------- plug-in modifier

\* What the hook of a plug-in modifier may do when it is called: nothing,
\* setRemove(true) on itself, gflow->setRunning(false), or one of the
\* store's removal operations.
Acts(sz) ==
    { [op |-> o, id |-> -1] : o \in {"none", "setRemove", "setRunning", "doParticleRemoval"} }
      \cup { [op |-> "markForRemoval", id |-> i] : i \in 0 .. (sz - 1) }

\* The state a fan-out of modifier hooks works on: the store's fields, the
\* running flag and the modifier list, with what happened during the fan-out
\* (an exception, a raise of needs_remake, a stop, the modifiers that
\* flagged themselves).
World ==
    [ vdata |-> vdata, sdata |-> sdata, idata |-> idata, number |-> _number,
      id_map |-> id_map, remove_list |-> remove_list,
      needs_remake |-> needs_remake, running |-> gflow.running,
      mods |-> modifiers, thrown |-> FALSE, raised |-> FALSE,
      stopped |-> FALSE, flaggedNow |-> {} ]

\* SimData::markForRemoval(id) on a world.
Marked(w, id) ==
    IF w.idata[0][id] < 0 THEN w
    ELSE [w EXCEPT !.remove_list = @ \cup {id},
                   !.id_map = MapErase(@, w.idata[1][id]),
                   !.idata = MarkInts(@, id),
                   !.vdata = MarkClear(@, id)]

\* SimData::doParticleRemoval() on a world whose remove list lies in
\* [0, sz): the same loops as in the action doParticleRemoval.
Compacted(w, sz) ==
    IF w.remove_list = {} \/ w.number = 0 THEN w
    ELSE LET need_removal == Cardinality({id \in w.remove_list : w.idata[0][id] # -1})
             st0 == [ vdata |-> w.vdata, sdata |-> w.sdata,
                      idata |-> TombstoneAll(w.idata, w.remove_list),
                      number |-> w.number, id_map |-> w.id_map,
                      needs_remake |-> w.needs_remake,
                      thrown |-> FALSE, removed |-> 0 ]
             st == FillHoles(st0, w.remove_list, w.remove_list, sz)
         IN  [w EXCEPT !.vdata = st.vdata,
                       !.sdata = st.sdata,
                       !.idata = st.idata,
                       !.id_map = st.id_map,
                       !.number = IF st.thrown THEN st.number ELSE st.number - need_removal,
                       !.remove_list = IF st.thrown THEN @ ELSE {},
                       !.needs_remake = IF st.thrown THEN st.needs_remake
                                        ELSE (st.removed > 0 \/ st.needs_remake),
                       !.thrown = st.thrown,
                       !.raised = \/ @
                                  \/ ~st.thrown /\ st.removed > 0
                                  \/ st.needs_remake /\ ~w.needs_remake]

\* One hook of the k-th modifier of the list: Flow acts in pre_forces only,
\* a plug-in does what `act` says.
CallOne(w, k, act, hook, sz) ==
    IF w.mods[k].kind = "Flow"
    THEN (IF hook = "modifiers.pre_forces"
          THEN [w EXCEPT !.vdata = Flow_pre_forces(@, w.sdata, w.number)]
          ELSE w)
    ELSE CASE act.op = "setRemove" ->
                [w EXCEPT !.mods[k].remove = TRUE,
                          !.flaggedNow = @ \cup {w.mods[k].id}]
           [] act.op = "setRunning" ->
                [w EXCEPT !.running = FALSE, !.stopped = @ \/ w.running]
           [] act.op = "markForRemoval" -> Marked(w, act.id)
           [] act.op = "doParticleRemoval" -> Compacted(w, sz)
           [] OTHER -> w

\* "for (auto m : modifiers) m->hook();" from the k-th modifier on; an
\* exception ends the loop.
RECURSIVE CallModifiers(_, _, _, _, _)
CallModifiers(w, k, choice, hook, sz) ==
    IF k > Len(w.mods) \/ w.thrown THEN w
    ELSE CallModifiers(
           CallOne(w, k, IF w.mods[k].id \in DOMAIN choice THEN choice[w.mods[k].id]
                         ELSE [op |-> "none", id |-> -1], hook, sz),
           k + 1, choice, hook, sz)

\* The ids of the plug-in modifiers of a list.
PluginIds(mods) == { mods[k].id : k \in { j \in 1 .. Len(mods) : mods[j].kind = "Plugin" } }

\* Modifier::getRemove() is false.
Kept(m) == ~m.remove

\* The list GFlow::handleModifiers leaves: the modifiers whose remove flag
\* is set are erased.
handleModifiersList(mods) == SelectSeq(mods, Kept)

\* fabs
Abs(n) == IF n < 0 THEN -n ELSE n

\* The largest element of a set of naturals, 0 for the empty set.
MaxOver(S) == IF S = {} THEN 0 ELSE CHOOSE m \in S : \A k \in S : k <= m

\* Integrator::get_max_velocity in units of 0.01: the largest |v| over the
\* sim_dimensions*size() components, times sqrt(sim_dimensions).
get_max_velocity(vd, n) ==
    Fin(MaxOver({ Abs(vd[1][i][d]) : i \in 0 .. (n - 1), d \in Dims })
          * ISqrt(sim_dimensions * 10000, 0, 1000))

\* Integrator::get_max_acceleration in units of 0.01: the largest
\* |f * im|, times sqrt(sim_dimensions); a force counts units of
\* 1 / (100 * width^2).
get_max_acceleration(vd, sd, n) ==
    Fin((MaxOver({ Abs(vd[2][i][d] * sd[1][i]) : i \in 0 .. (n - 1), d \in Dims })
          * ISqrt(sim_dimensions * 10000, 0, 1000)) \div (100 * BoundsWidth * BoundsWidth))

\* The assignment of a world to the store's variables.
CommitWorld(w) ==
    /\ vdata' = w.vdata
    /\ sdata' = w.sdata
    /\ idata' = w.idata
    /\ _number' = w.number
    /\ id_map' = w.id_map
    /\ remove_list' = w.remove_list
    /\ needs_remake' = w.needs_remake
    /\ UNCHANGED << _size, _capacity, next_global_id, lastOp, lastArg, trip >>

\* Control after call c: on to the next call, or out of run with the
\* exception.
Control(c, thrown) ==
    /\ status' = IF thrown THEN "thrown" ELSE "ok"
    /\ pc' = IF thrown THEN "idle" ELSE NextCall(c)
    /\ trace' = Append(trace, c)

\* -------------------------------------------------------------- engine inputs

\* The times a driver asks run for: one, one and a half and two default
\* time steps.
RunInputs == { Fin(100), Fin(150), Fin(200) }

\* The particle lists a scenario builder hands to the store: none, or two
\* particles of different types, the lower type first.
Setups ==
    { << >> } \cup { << pq[1], pq[2] >> :
                        pq \in { r \in ParticleInputs \X ParticleInputs : r[1].type < r[2].type } }

\* The particles ps[k], ps[k+1], ... added one after the other.
RECURSIVE PlaceAll(_, _, _)
PlaceAll(st, ps, k) ==
    IF k > Len(ps) THEN st
    ELSE PlaceAll(Place(st, ps[k].x, ps[k].v, ps[k].sg, ps[k].im, ps[k].type), ps, k + 1)

\* The store a scenario builder leaves after adding the particles ps to an
\* empty store.
Populated(ps) ==
    LET st == PlaceAll([ vdata |-> EmptyV, sdata |-> EmptyS, idata |-> EmptyI,
                         next |-> 0, number |-> 0, size |-> 0 ], ps, 1)
    IN  /\ vdata = st.vdata
        /\ sdata = st.sdata
        /\ idata = st.idata
        /\ next_global_id = st.next
        /\ _number = st.number
        /\ _size = st.size
        /\ _capacity = IF Len(ps) = 0 THEN 0 ELSE resize_owned(0, ResizeChunk)
        /\ id_map = [g \in {} |-> 0]
        /\ remove_list = {}
        /\ needs_remake = FALSE
        /\ status = "ok"
        /\ lastOp = "addParticle"
        /\ lastArg = Len(ps) - 1
        /\ trip = NoTrip

\* What a run starts from: the particles and the engine's objects.
Snapshot ==
    [ vdata |-> vdata, sdata |-> sdata, idata |-> idata, number |-> _number,
      size |-> _size, needs_remake |-> needs_remake,
      gflow |-> gflow, integrator |-> integrator, handler |-> handler ]

\* The engine a scenario builder leaves: a populated store, one interaction,
\* the default integrator with dt adjustment on or off, the default domain,
\* and a Flow modifier followed by a plug-in modifier.
EngineInit ==
    /\ \E ps \in Setups : Populated(ps)
    /\ gflow = [GFlowNew EXCEPT !.interactions = 1]
    /\ \E a \in BOOLEAN : integrator = [IntegratorNew EXCEPT !.adjust_dt = a]
    /\ handler = DomainNew
    /\ modifiers = << Modifier(1, "Flow"), Modifier(2, "Plugin") >>
    /\ dataMaster = DataMasterNew
    /\ pc = "idle"
    /\ trace = << >>
    /\ hist = NoHist

\* ------------------------------------------------------------- engine actions

\* GFlow::run(rt) up to the while loop: the request is recorded; with no
\* particles both clocks take the whole request and run returns; otherwise
\* the clocks of the run are reset and the pre_integrate hooks run.
RunBody(rt) ==
    /\ status = "ok"
    /\ pc = "idle"
    /\ LET g1 == RunRequest(gflow, rt)
           h1 == [hist EXCEPT !.runs = @ + 1, !.asked = g1.requested_time,
                              !.postRan = FALSE, !.stopCall = "", !.stopIter = -1,
                              !.obsPre = 0, !.obsPost = 0,
                              !.start = IF hist.runs = 0 THEN Snapshot ELSE @]
       IN  IF number = 0
           THEN /\ gflow' = RunEmpty(g1)
                /\ pc' = "idle"
                /\ hist' = [h1 EXCEPT !.looped = FALSE]
                /\ UNCHANGED << integrator, handler >>
           ELSE /\ gflow' = RunStart(g1)
                /\ integrator' = Integrator_pre_integrate(integrator, sdata, idata, size, number)
                /\ handler' = DomainBase_pre_integrate(handler)
                /\ pc' = "while"
                /\ hist' = [h1 EXCEPT !.looped = TRUE,
                                       !.obsPre = DataMaster_pre_integrate(dataMaster)]
    /\ trace' = << >>
    /\ UNCHANGED << storeVars, modifiers, dataMaster >>

\* The call of run a driver makes after it has built the scenario.
run(rt) == hist.runs = 0 /\ RunBody(rt)

\* A further call of run on the same engine, by a driver that resumes.
run_again(rt) == hist.runs > 0 /\ hist.runs < MaxRuns /\ RunBody(rt)

\* "while (running && requested_time > 0)": into the next step, or out of
\* the loop.
while_test ==
    /\ status = "ok"
    /\ pc = "while"
    /\ IF WhileTest(gflow)
       THEN /\ gflow.iter < MaxIter
            /\ pc' = StepCalls[1]
            /\ trace' = << >>
       ELSE /\ pc' = "post_integrate"
            /\ UNCHANGED trace
    /\ UNCHANGED << storeVars, gflow, integrator, handler, modifiers, dataMaster, hist >>

\* "for (auto m : modifiers) m->c();" for one of the five modifier hooks c.
modifiers_hook(c) ==
    /\ status = "ok"
    /\ pc = c
    /\ c \in ModifierCalls
    /\ \E choice \in [PluginIds(modifiers) -> Acts(_size)] :
         LET w == CallModifiers(World, 1, choice, c, _size)
         IN  /\ CommitWorld(w)
             /\ modifiers' = w.mods
             /\ gflow' = [gflow EXCEPT !.running = w.running]
             /\ Control(c, w.thrown)
             /\ UNCHANGED dataMaster
             /\ hist' = [hist EXCEPT
                   !.flagged = [id \in DOMAIN @ |->
                                  IF id \in w.flaggedNow /\ @[id].run = 0
                                  THEN [run |-> hist.runs, iter |-> gflow.iter, call |-> c]
                                  ELSE @[id]],
                   !.stopCall = IF w.stopped /\ @ = "" THEN c ELSE @,
                   !.stopIter = IF w.stopped /\ @ = -1 THEN gflow.iter ELSE @,
                   !.stopElapsed = IF w.stopped /\ hist.stopCall = ""
                                   THEN gflow.elapsed_time ELSE @,
                   !.stopTotal = IF w.stopped /\ hist.stopCall = ""
                                 THEN gflow.total_time ELSE @,
                   !.pending = @ \/ w.raised,
                   !.expectF = IF c = "modifiers.pre_forces" THEN w.vdata[2] ELSE @]
    /\ UNCHANGED << integrator, handler >>

\* integrator->pre_step()
integrator_pre_step ==
    /\ status = "ok"
    /\ pc = "integrator.pre_step"
    /\ LET r == Integrator_pre_step(integrator, get_max_velocity(vdata, size),
                                    get_max_acceleration(vdata, sdata, size))
       IN  /\ integrator' = r.it
           /\ Control("integrator.pre_step", r.thrown)
    /\ UNCHANGED << vdata, sdata, idata, _number, _size, _capacity, next_global_id,
                    id_map, remove_list, needs_remake, lastOp, lastArg, trip,
                    gflow, handler, modifiers, dataMaster, hist >>

\* A hook that changes nothing the model holds.
Passive(c) ==
    /\ status = "ok"
    /\ pc = c
    /\ Control(c, FALSE)
    /\ UNCHANGED << vdata, sdata, idata, _number, _size, _capacity, next_global_id,
                    id_map, remove_list, needs_remake, lastOp, lastArg, trip,
                    gflow, integrator, handler, modifiers, dataMaster, hist >>

\* integrator->pre_exchange(), pre_forces(), post_forces(), post_step() of
\* the base class.
integrator_hook(c) == c \in IntegratorCalls /\ Passive(c)

\* dataMaster->pre_step(), ..., post_step()
dataMaster_hook(c) == c \in DataMasterCalls /\ Passive(c)

\* handler->pre_step(), pre_exchange(), post_forces(), post_step()
handler_hook(c) == c \in HandlerCalls /\ Passive(c)

\* DomainBase::maxMotion() over skin_depth, as check_needs_remake measures
\* it: no call of the step writes X, so nothing has moved since the snapshot
\* construct() took.
maxMotionRatio == 0

\* "if (useForces) handler->pre_forces();": DomainBase::pre_forces, with
\* construct() and its doParticleRemoval() when it is called.
handler_pre_forces ==
    /\ status = "ok"
    /\ pc = "handler.pre_forces"
    /\ IF ~gflow.useForces
       THEN /\ CommitWorld(World)
            /\ Control("handler.pre_forces", FALSE)
            /\ UNCHANGED << handler, hist >>
       ELSE   LET r == DomainBase_pre_forces(handler, gflow.elapsed_time, number,
                                             needs_remake, gflow.interactions,
                                             maxMotionRatio)
                  w == IF r.construct THEN Compacted(World, _size) ELSE World
                  done == r.construct /\ ~w.thrown
              IN  /\ CommitWorld(w)
                  /\ handler' = IF done THEN Constructed(r.h, gflow.elapsed_time) ELSE r.h
                  /\ Control("handler.pre_forces", w.thrown)
                  /\ hist' = [hist EXCEPT !.pending = IF done THEN FALSE ELSE @]
    /\ UNCHANGED << gflow, integrator, modifiers, dataMaster >>

\* GFlow::clearForces: simData->clearF().
clearForces ==
    /\ status = "ok"
    /\ pc = "clearForces"
    /\ vdata' = [vdata EXCEPT ![ClearFEntry] = ZeroPrefix(@, _size * sim_dimensions)]
    /\ Control("clearForces", FALSE)
    /\ UNCHANGED << sdata, idata, _number, _size, _capacity, next_global_id,
                    id_map, remove_list, needs_remake, lastOp, lastArg, trip,
                    gflow, integrator, handler, modifiers, dataMaster, hist >>

\* reflectPositions(), repulsePositions(), attractPositions(): with WRAP on
\* every axis none of them acts.
boundaryForces == Passive("boundaryForces")

\* The force array after the interaction of the scenario: the two particles
\* push each other with a unit force when both are there.
PairForce(arr, on) ==
    IF on THEN [arr EXCEPT ![0] = [d \in Dims |-> @[d] + 1],
                           ![1] = [d \in Dims |-> @[d] - 1]]
    ELSE arr

\* forceMaster->interact()
interact ==
    /\ status = "ok"
    /\ pc = "interact"
    /\ LET on == /\ gflow.useForces
                 /\ gflow.interactions > 0
                 /\ number >= 2
                 /\ Type(0) >= 0
                 /\ Type(1) >= 0
       IN  /\ vdata' = [vdata EXCEPT ![2] = PairForce(@, on)]
           /\ hist' = [hist EXCEPT !.expectF = PairForce(@, on)]
    /\ Control("interact", FALSE)
    /\ UNCHANGED << sdata, idata, _number, _size, _capacity, next_global_id,
                    id_map, remove_list, needs_remake, lastOp, lastArg, trip,
                    gflow, integrator, handler, modifiers, dataMaster >>

\* GFlow::handleModifiers()
handleModifiers ==
    /\ status = "ok"
    /\ pc = "handleModifiers"
    /\ modifiers' = handleModifiersList(modifiers)
    /\ Control("handleModifiers", FALSE)
    /\ UNCHANGED dataMaster
    /\ UNCHANGED << vdata, sdata, idata, _number, _size, _capacity, next_global_id,
                    id_map, remove_list, needs_remake, lastOp, lastArg, trip,
                    gflow, integrator, handler, hist >>

\* simData->updateHaloParticles(): there are no halo particles.
updateHaloParticles == Passive("updateHaloParticles")

\* "if (requested_time <= elapsed_time) running = false;"
timeCheck ==
    /\ status = "ok"
    /\ pc = "timeCheck"
    /\ gflow' = TimeCheck(gflow)
    /\ Control("timeCheck", FALSE)
    /\ UNCHANGED << vdata, sdata, idata, _number, _size, _capacity, next_global_id,
                    id_map, remove_list, needs_remake, lastOp, lastArg, trip,
                    integrator, handler, modifiers, dataMaster, hist >>

\* The end of the loop body: the timer updates with the integrator's dt,
\* and simData->setNeedsRemake(false).
advance ==
    /\ status = "ok"
    /\ pc = "advance"
    /\ gflow' = Advance(gflow, integrator.dt)
    /\ needs_remake' = FALSE
    /\ Control("advance", FALSE)
    /\ hist' = [hist EXCEPT !.steps = @ + 1]
    /\ UNCHANGED << vdata, sdata, idata, _number, _size, _capacity, next_global_id,
                    id_map, remove_list, lastOp, lastArg, trip,
                    integrator, handler, modifiers, dataMaster >>

\* GFlow::run after the loop: requested_time = 0 and the post_integrate
\* hooks of simData, integrator, handler, dataMaster, forceMaster and the
\* modifiers.
post_integrate ==
    /\ status = "ok"
    /\ pc = "post_integrate"
    /\ gflow' = RunEnd(gflow)
    /\ pc' = "idle"
    /\ hist' = [hist EXCEPT
          !.postRan = TRUE,
          !.runSteps = Append(@, gflow.iter),
          !.obsPost = DataMaster_post_integrate(dataMaster, gflow.elapsed_time)]
    /\ UNCHANGED << storeVars, integrator, handler, modifiers, dataMaster, trace >>

\* ------------------------------------------------------ engine specification

StepNext ==
    \/ while_test
    \/ \E c \in ModifierCalls : modifiers_hook(c)
    \/ integrator_pre_step
    \/ \E c \in IntegratorCalls : integrator_hook(c)
    \/ \E c \in DataMasterCalls : dataMaster_hook(c)
    \/ \E c \in HandlerCalls : handler_hook(c)
    \/ handler_pre_forces
    \/ clearForces
    \/ boundaryForces
    \/ interact
    \/ handleModifiers
    \/ updateHaloParticles
    \/ timeCheck
    \/ advance
    \/ post_integrate

EngineNext ==
    \/ \E rt \in RunInputs : run(rt)
    \/ StepNext

EngineSpec == EngineInit /\ [][EngineNext]_vars

\* An engine that is resumed: the scenario has no plug-in modifier, and the
\* driver calls run several times.
ResumeInit ==
    /\ \E ps \in Setups : Populated(ps)
    /\ gflow = [GFlowNew EXCEPT !.interactions = 1]
    /\ \E a \in BOOLEAN : integrator = [IntegratorNew EXCEPT !.adjust_dt = a]
    /\ handler = DomainNew
    /\ modifiers = << Modifier(1, "Flow") >>
    /\ dataMaster = DataMasterNew
    /\ pc = "idle"
    /\ trace = << >>
    /\ hist = NoHist

ResumeNext ==
    \/ \E rt \in RunInputs : run(rt)
    \/ \E rt \in RunInputs : run_again(rt)
    \/ StepNext

ResumeSpec == ResumeInit /\ [][ResumeNext]_vars

\* ------------------------------------------------------------- observers

\* The start-recording times a driver passes to setStartRecTime: 0, one
\* time step, and ten.
StartRecInputs == { Fin(0), Fin(100), Fin(1000) }

\* A built scenario with one data object, a Flow modifier and a fixed or
\* adjusted time step.
ObserverInit ==
    /\ \E ps \in Setups : Len(ps) > 0 /\ Populated(ps)
    /\ gflow = [GFlowNew EXCEPT !.interactions = 1]
    /\ \E a \in BOOLEAN : integrator = [IntegratorNew EXCEPT !.adjust_dt = a]
    /\ handler = DomainNew
    /\ modifiers = << Modifier(1, "Flow") >>
    /\ dataMaster = [DataMasterNew EXCEPT !.dataObjects = 1]
    /\ pc = "idle"
    /\ trace = << >>
    /\ hist = NoHist

\* GFlow::setStartRecTime(t): dataMaster->setStartRecTime(t), called by the
\* driver before the run.
setStartRecTime(t) ==
    /\ status = "ok"
    /\ pc = "idle"
    /\ hist.runs = 0
    /\ dataMaster' = [dataMaster EXCEPT !.startRecTime = t]
    /\ UNCHANGED << storeVars, gflow, integrator, handler, modifiers, pc, trace, hist >>

ObserverNext ==
    \/ \E t \in StartRecInputs : setStartRecTime(t)
    \/ \E rt \in RunInputs : run(rt)
    \/ StepNext

ObserverSpec == ObserverInit /\ [][ObserverNext]_vars

\* ---------------------------------------------------------- integrator alone

\* Calls of pre_step after pre_integrate.
MaxCalls == 6
\* The largest step delay a driver sets.
MaxDelay == 2

\* What a driver passes to setMinDT and setMaxDT: nothing usable, and the
\* 1e-4 and 1e-2 of scenario S4.
MinDtInputs == { Fin(0), Fin(100) }
MaxDtInputs == { Fin(0), Fin(10000) }

\* What a driver passes to setTargetSteps.
TargetStepsInputs == { 0, 10 }

\* What get_max_velocity() can return, in units of 0.01: 0 when no slot
\* below size() holds a live particle (markForRemoval has cleared every
\* velocity), and otherwise 0, 1 or 100.
MaxVInputs(idt, sz) ==
    IF \A i \in 0 .. (sz - 1) : idt[0][i] < 0
    THEN { Fin(0) }
    ELSE { Fin(0), Fin(100), Fin(10000) }

\* What get_max_acceleration() can return, in units of 0.01: 0 when every
\* force is zero, and otherwise 0 or 1.
MaxAInputs(idt, sz) ==
    IF \A i \in 0 .. (sz - 1) : idt[0][i] < 0
    THEN { Fin(0) }
    ELSE { Fin(0), Fin(100) }

\* What has been observed of the integrator since pre_integrate: the number
\* of pre_step calls, the calls that passed the gate, the dt pre_integrate
\* left, the dt before the last call that passed the gate and the maxima
\* that call read.
NoCalls ==
    [ calls |-> 0, adjusts |-> << >>, startDt |-> Fin(0), prevDt |-> Fin(0),
      mv |-> Fin(0), ma |-> Fin(0) ]

\* A built scenario before its run: a populated store and the integrator as
\* constructed.
IntegratorInit ==
    /\ \E ps \in Setups : Len(ps) > 0 /\ Populated(ps)
    /\ gflow = GFlowNew
    /\ integrator = IntegratorNew
    /\ handler = DomainNew
    /\ modifiers = << >>
    /\ dataMaster = DataMasterNew
    /\ pc = "idle"
    /\ trace = << >>
    /\ hist = NoCalls

\* A setter of the integrator called on a built scenario: the field `field`
\* takes the value `val`.
Configure(field, val) ==
    /\ status = "ok"
    /\ pc = "idle"
    /\ integrator' = [integrator EXCEPT ![field] = val]
    /\ UNCHANGED << storeVars, gflow, handler, modifiers, dataMaster, pc, trace, hist >>

\* Integrator::setUseV(u)
setUseV(u) == Configure("use_v", u)

\* Integrator::setUseA(u)
setUseA(u) == Configure("use_a", u)

\* Integrator::setAdjustDT(d)
setAdjustDT(d) == Configure("adjust_dt", d)

\* Integrator::setTargetSteps(s): target_steps = max(1, s)
setTargetSteps(s) == Configure("target_steps", IF s < 1 THEN 1 ELSE s)

\* Integrator::setStepDelay(s): step_delay = max(0, s)
setStepDelay(s) == Configure("step_delay", IF s < 0 THEN 0 ELSE s)

\* Integrator::setMaxDT(t): if (t>0) max_dt = t
setMaxDT(t) == Configure("max_dt", IF FLess(Fin(0), t) THEN t ELSE integrator.max_dt)

\* Integrator::setMinDT(t): if (t>0) min_dt = t
setMinDT(t) == Configure("min_dt", IF FLess(Fin(0), t) THEN t ELSE integrator.min_dt)

\* A particle of the built scenario is marked for removal before the run.
markBeforeRun(id) == pc = "idle" /\ markForRemoval(id)

\* integrator->pre_integrate(), as GFlow::run calls it on a store whose
\* number() is not 0.
pre_integrate ==
    /\ status = "ok"
    /\ pc = "idle"
    /\ number > 0
    /\ integrator' = Integrator_pre_integrate(integrator, sdata, idata, size, number)
    /\ pc' = "integrating"
    /\ hist' = [NoCalls EXCEPT !.startDt = integrator'.dt]
    /\ UNCHANGED << storeVars, gflow, handler, modifiers, dataMaster, trace >>

\* integrator->pre_step() in a step of the run, with the maxima mv and ma
\* that the particles have at that step.
pre_step(mv, ma) ==
    /\ status = "ok"
    /\ pc = "integrating"
    /\ hist.calls < MaxCalls
    /\ LET r == Integrator_pre_step(integrator, mv, ma)
       IN  /\ integrator' = r.it
           /\ status' = IF r.thrown THEN "thrown" ELSE "ok"
           /\ hist' = [hist EXCEPT
                 !.calls = @ + 1,
                 !.adjusts = IF r.adjusted THEN Append(@, hist.calls + 1) ELSE @,
                 !.prevDt = IF r.adjusted THEN integrator.dt ELSE @,
                 !.mv = IF r.adjusted /\ integrator.use_v THEN mv ELSE @,
                 !.ma = IF r.adjusted /\ integrator.use_a THEN ma ELSE @]
    /\ UNCHANGED << vdata, sdata, idata, _number, _size, _capacity, next_global_id,
                    id_map, remove_list, needs_remake, lastOp, lastArg, trip,
                    gflow, handler, modifiers, dataMaster, pc, trace >>

IntegratorNext ==
    \/ \E u \in BOOLEAN : setUseV(u)
    \/ \E u \in BOOLEAN : setUseA(u)
    \/ \E d \in BOOLEAN : setAdjustDT(d)
    \/ \E s \in TargetStepsInputs : setTargetSteps(s)
    \/ \E s \in -1 .. MaxDelay : setStepDelay(s)
    \/ \E t \in MaxDtInputs : setMaxDT(t)
    \/ \E t \in MinDtInputs : setMinDT(t)
    \/ \E id \in 0 .. (MaxSize - 1) : markBeforeRun(id)
    \/ pre_integrate
    \/ \E mv \in MaxVInputs(idata, size), ma \in MaxAInputs(idata, size) : pre_step(mv, ma)

IntegratorSpec == IntegratorInit /\ [][IntegratorNext]_vars

\* ------------------------------------------------------------- properties

Slots == 0 .. (_size - 1)

\* The slots of [0, _size) that hold a live particle.
Live == {i \in Slots : Type(i) >= 0}

\* C1: after any sequence of add, mark_for_removal and compact operations,
\* number() is the count of the indices in [0, size) with Type >= 0.
C1_NumberCountsLive ==
    status = "ok" => number = Cardinality(Live)

\* C2: capacity >= size >= number after every store operation, an add made
\* with size equal to capacity included.
C2_CounterOrder ==
    /\ _capacity >= _size
    /\ _size >= _number

\* C2 witness: addParticle(x, v, sg, im, type) has returned after it was
\* called with _size = _capacity >= 1, so that the arrays were grown.
C2_Witness ==
    /\ status = "ok"
    /\ lastOp = "addParticle"
    /\ lastArg >= 1
    /\ _capacity = lastArg + ResizeChunk
    /\ _size = lastArg + 1

\* C3: immediately after compact() returns, every index in [0, number) holds
\* a live particle and size = number.
C3_CompactLeavesDense ==
    (lastOp = "doParticleRemoval" /\ status = "ok") =>
        /\ _size = _number
        /\ \A i \in 0 .. (_number - 1) : i \in Slots /\ Type(i) >= 0

\* C4: every live particle i satisfies id_map[Id[i]] = i (each live Id then
\* is a key of the id map, and a map holds a key once).
C4_IdMapResolves ==
    status = "ok" =>
        \A i \in Live : Id(i) \in DOMAIN id_map /\ id_map[Id(i)] = i

\* The step is the return of one of the two single-particle addParticle overloads.
AddedOne == lastOp' \in {"addParticle", "addParticleDefault"}

\* The step is the return of addParticle(num) with num >= 1.
AddedBatch == lastOp' = "addParticleBatch" /\ lastArg' >= 1

\* C5: an added particle is stored at the index equal to size before the
\* call, size and number grow by exactly one, and its Id is the value of the
\* id counter, which is above every Id handed out before and which no
\* operation (removal, compaction, reserve) ever lowers: no Id is assigned
\* twice.  addParticle(num) does so num times.
C5_AddFreshId ==
    [][ /\ next_global_id' >= next_global_id
        /\ \A i \in Slots : Id(i) < next_global_id
        /\ AddedOne =>
             /\ _size' = _size + 1
             /\ _number' = _number + 1
             /\ idata'[1][_size] = next_global_id
             /\ next_global_id' > next_global_id
             /\ \A i \in Slots : idata'[1][i] = Id(i) /\ Id(i) < idata'[1][_size]
        /\ AddedBatch =>
             /\ _size' = _size + lastArg'
             /\ _number' = _number + lastArg'
             /\ \A k \in 0 .. (lastArg' - 1) : idata'[1][_size + k] = next_global_id + k
             /\ next_global_id' = next_global_id + lastArg'
             /\ \A i \in Slots : idata'[1][i] = Id(i)
      ]_vars

\* C5 witness: a particle was added after a reserve() emptied the arrays, so
\* its Id lies above its index.
C5_Witness ==
    /\ status = "ok"
    /\ lastOp = "addParticle"
    /\ Id(lastArg) > lastArg
    /\ remove_list # {}

\* The step is the return of markForRemoval(i) called on a live particle i.
MarkedLive(i) ==
    /\ lastOp' = "markForRemoval"
    /\ lastArg' = i
    /\ i \in Slots
    /\ Type(i) >= 0

\* C6: mark_for_removal(i) on a live particle i sets Type[i] = -1, zeroes V[i]
\* and F[i], removes Id[i] from the id map, adds i to the pending set, and
\* changes no field and no id-map entry of any other particle.
C6_MarkFrame ==
    [][ \A i \in 0 .. (MaxSize - 1) : MarkedLive(i) =>
          /\ idata'[0][i] = -1
          /\ vdata'[1][i] = zeroVec
          /\ vdata'[2][i] = zeroVec
          /\ Id(i) \notin DOMAIN id_map'
          /\ remove_list' = remove_list \cup {i}
          /\ _size' = _size
          /\ vdata'[0][i] = X(i)
          /\ \A j \in Slots \ {i} :
                /\ \A k \in 0 .. 2 : vdata'[k][j] = vdata[k][j]
                /\ \A k \in 0 .. 1 : sdata'[k][j] = sdata[k][j]
                /\ \A k \in 0 .. 1 : idata'[k][j] = idata[k][j]
          /\ \A g \in (DOMAIN id_map) \ {Id(i)} :
                g \in DOMAIN id_map' /\ id_map'[g] = id_map[g]
          /\ DOMAIN id_map' \subseteq DOMAIN id_map
      ]_vars

\* C6 witness: a particle that carried a force and a velocity was marked
\* while another live particle carries a force and a velocity.
C6_Witness ==
    /\ status = "ok"
    /\ lastOp = "markForRemoval"
    /\ lastArg \in remove_list
    /\ Type(lastArg) = -1
    /\ \E j \in Live : F(j) # zeroVec /\ V(j) # zeroVec

\* C7: adding one particle to a store with no pending holes, marking it for
\* removal at once and compacting restores number and size to their values
\* before the add, and its Id is not given to any later particle.
C7_RoundTripRestores ==
    trip.stage = "compacted" =>
        /\ status = "ok"
        /\ _number = trip.number0
        /\ _size = trip.size0
        /\ next_global_id > trip.id
        /\ \A i \in Slots : Id(i) # trip.id

\* The state is the one N adds to an empty store and marks of a non-empty
\* subset M leave: slot i was given Id i, and exactly the listed slots are
\* tombstones.
AfterAddsAndMarks ==
    /\ status = "ok"
    /\ _size = next_global_id
    /\ remove_list # {}
    /\ remove_list \subseteq Slots
    /\ \A i \in Slots : IF i \in remove_list THEN Type(i) = -1
                        ELSE Type(i) >= 0 /\ Id(i) = i

\* C8: after adding N particles and marking a subset M of them, compact
\* leaves number = size = N - |M|, no tombstone in [0, size), and every
\* surviving Id resolving through the id map to a slot that holds that
\* particle's position, velocity, radius, inverse mass and type.
C8_CompactKeepsSurvivors ==
    [][ (AfterAddsAndMarks /\ lastOp' = "doParticleRemoval") =>
          /\ status' = "ok"
          /\ _number' = _size - Cardinality(remove_list)
          /\ _size' = _size - Cardinality(remove_list)
          /\ \A j \in 0 .. (_size' - 1) : idata'[0][j] >= 0
          /\ \A i \in Slots \ remove_list :
                /\ Id(i) \in DOMAIN id_map'
                /\ LET j == id_map'[Id(i)]
                   IN  /\ j \in 0 .. (_size' - 1)
                       /\ idata'[1][j] = Id(i)
                       /\ vdata'[0][j] = X(i)
                       /\ vdata'[1][j] = V(i)
                       /\ sdata'[0][j] = Sg(i)
                       /\ sdata'[1][j] = Im(i)
                       /\ idata'[0][j] = Type(i)
      ]_vars

\* C9: reserve(n) on a store that holds particles results in capacity >= n
\* and leaves size, number, every stored field and the id map unchanged.
C9_ReservePreserves ==
    [][ (lastOp' = "reserve" /\ _size > 0) =>
          /\ _capacity' >= lastArg'
          /\ _size' = _size
          /\ _number' = _number
          /\ vdata' = vdata
          /\ sdata' = sdata
          /\ idata' = idata
          /\ id_map' = id_map
      ]_vars

\* C10: after clear_forces() returns, every component of the force F is zero
\* for every index in [0, size).
C10_ClearFZeroesForces ==
    (lastOp = "clearF" /\ status = "ok") => \A i \in Slots : F(i) = zeroVec

\* ------------------------------------------------------ engine properties

\* The calls made so far in the current step.
Called == { trace[j] : j \in 1 .. Len(trace) }

\* Every call of A has been made before any call of B is made.
Before(A, B) ==
    \A j \in 1 .. Len(trace) :
        trace[j] \in B => \A a \in A : \E i \in 1 .. (j - 1) : trace[i] = a

\* The pre_step and the pre_exchange hooks of all collaborators.
PreStepCalls ==
    { "modifiers.pre_step", "integrator.pre_step", "dataMaster.pre_step", "handler.pre_step" }
PreExchangeCalls ==
    { "modifiers.pre_exchange", "integrator.pre_exchange", "dataMaster.pre_exchange",
      "handler.pre_exchange" }

\* The order of phases within one step: pre_step, pre_exchange, integrator
\* pre_forces, domain pre_forces, clear_forces, modifier pre_forces,
\* interactions, halo update, integrator post_forces, observers
\* post_forces, modifier post_step.
PhaseChain ==
    << PreStepCalls, PreExchangeCalls, {"integrator.pre_forces"}, {"handler.pre_forces"},
       {"clearForces"}, {"modifiers.pre_forces"}, {"interact"}, {"updateHaloParticles"},
       {"integrator.post_forces"}, {"dataMaster.post_forces"}, {"modifiers.post_step"} >>

\* The force a modifier added in its pre_forces hook (with what the
\* interactions added since) is what F holds for every live particle.
ModifierForcePresent ==
    \A i \in 0 .. (_size - 1) : Type(i) >= 0 => F(i) = hist.expectF[i]

\* C11: within every engine step the phases run in the order of PhaseChain,
\* and a force a modifier added in its pre_forces hook is still in F when
\* the integrator's post_forces runs.
C11_PhaseOrder ==
    /\ \A k \in 1 .. (Len(PhaseChain) - 1) : Before(PhaseChain[k], PhaseChain[k + 1])
    /\ (status = "ok" /\ pc = "integrator.post_forces") => ModifierForcePresent

\* A run of the step loop has returned normally, with a fixed positive time
\* step and without a collaborator having stopped it.
FixedStepRunDone ==
    /\ status = "ok"
    /\ pc = "idle"
    /\ hist.runs >= 1
    /\ hist.looped
    /\ hist.postRan
    /\ hist.stopCall = ""
    /\ ~integrator.adjust_dt
    /\ integrator.dt.k = "fin"
    /\ integrator.dt.n > 0

\* C12: a run requested for elapsed time T with a fixed time step dt stops
\* when T is reached: the number of steps executed is the smallest n with
\* n*dt >= T, so on return T <= elapsed_time < T + dt.
C12_StopsAtRequestedTime ==
    FixedStepRunDone =>
        /\ FLeq(hist.asked, gflow.elapsed_time)
        /\ FLess(gflow.elapsed_time, FAdd(hist.asked, integrator.dt))
        /\ gflow.iter * integrator.dt.n >= hist.asked.n
        /\ (gflow.iter - 1) * integrator.dt.n < hist.asked.n

\* ------------------------------------------------------------ reference run

\* Steps a reference run may take.
MaxRefSteps == 12

\* One pass of the loop body of GFlow::run on a snapshot, for an engine
\* whose only modifier is Flow: the calls of StepCalls that change
\* something, in their order.
FlowStep(S) ==
    LET it1 == Integrator_pre_step(S.integrator, get_max_velocity(S.vdata, S.number),
                                   get_max_acceleration(S.vdata, S.sdata, S.number)).it
        vd1 == Flow_pre_forces(S.vdata, S.sdata, S.number)
        r == DomainBase_pre_forces(S.handler, S.gflow.elapsed_time, S.number,
                                   S.needs_remake, S.gflow.interactions, maxMotionRatio)
        h1 == IF ~S.gflow.useForces THEN S.handler
              ELSE IF r.construct THEN Constructed(r.h, S.gflow.elapsed_time)
              ELSE r.h
        vd2 == [vd1 EXCEPT ![ClearFEntry] = ZeroPrefix(@, S.size * sim_dimensions)]
        on == /\ S.gflow.useForces
              /\ S.gflow.interactions > 0
              /\ S.number >= 2
              /\ S.idata[0][0] >= 0
              /\ S.idata[0][1] >= 0
        vd3 == [vd2 EXCEPT ![2] = PairForce(@, on)]
    IN  [S EXCEPT !.integrator = it1,
                  !.vdata = vd3,
                  !.handler = h1,
                  !.gflow = Advance(TimeCheck(S.gflow), it1.dt),
                  !.needs_remake = FALSE]

\* The while loop of GFlow::run on a snapshot, for at most `fuel` steps.
RECURSIVE FlowLoop(_, _)
FlowLoop(S, fuel) ==
    IF WhileTest(S.gflow) /\ fuel > 0 THEN FlowLoop(FlowStep(S), fuel - 1) ELSE S

\* GFlow::run(rt) on a snapshot with particles, for an engine whose only
\* modifier is Flow.
FlowRun(S, rt) ==
    LET S1 == [S EXCEPT !.gflow = RunStart(RunRequest(S.gflow, rt)),
                        !.integrator = Integrator_pre_integrate(S.integrator, S.sdata,
                                                                S.idata, S.number, S.number),
                        !.handler = DomainBase_pre_integrate(S.handler)]
        S2 == FlowLoop(S1, MaxRefSteps)
    IN  [S2 EXCEPT !.gflow = IF WhileTest(S2.gflow) THEN @ ELSE RunEnd(@)]

\* The times a single run may be asked for.
RefInputs == { Fin(50 * j) : j \in 1 .. MaxRefSteps }

\* What the comparison of two final states looks at: the particle fields,
\* the step count, total_time and the rebuild bookkeeping.
Observed(S) ==
    [ vdata |-> S.vdata, sdata |-> S.sdata, idata |-> S.idata,
      iter |-> S.gflow.iter, total_time |-> S.gflow.total_time,
      number_of_remakes |-> S.handler.number_of_remakes,
      steps_since_last_remake |-> S.handler.steps_since_last_remake,
      last_update |-> S.handler.last_update,
      needs_remake |-> S.needs_remake ]

\* Several runs of equally many steps each have returned, with a fixed time
\* step.
EqualRunsDone ==
    /\ status = "ok"
    /\ pc = "idle"
    /\ hist.runs >= 2
    /\ Len(hist.runSteps) = hist.runs
    /\ \A i \in 1 .. Len(hist.runSteps) : hist.runSteps[i] = hist.runSteps[1]
    /\ ~integrator.adjust_dt

\* C13: with adjust_dt = false, k consecutive runs of n/k steps each from
\* state S end in the same final state (particle fields, step count,
\* total_time, rebuild bookkeeping) as one run of n steps from S.
C13_ResumeEqualsSingleRun ==
    EqualRunsDone =>
        \A T \in RefInputs :
            LET R == FlowRun(hist.start, T)
            IN  (~WhileTest(R.gflow) /\ R.gflow.iter = hist.steps)
                    => Observed(R) = Observed(Snapshot)

\* The calls of a step, as a set.
StepCallSet == { StepCalls[i] : i \in 1 .. Len(StepCalls) }

\* A collaborator has set running to false during a step of the current run.
StoppedByCollaborator == hist.stopCall # ""

\* C14: when a collaborator sets running to false during a step, every
\* remaining phase of that step still executes, elapsed and total time are
\* advanced for that step, no phase of a further step is started, and
\* post_integrate runs afterwards.
C14_StopCompletesStep ==
    StoppedByCollaborator =>
        /\ pc \in StepCallSet => gflow.iter = hist.stopIter
        /\ pc \notin StepCallSet =>
              /\ trace = StepCalls
              /\ gflow.iter = hist.stopIter + 1
              /\ gflow.elapsed_time = FAdd(hist.stopElapsed, integrator.dt)
              /\ gflow.total_time = FAdd(hist.stopTotal, integrator.dt)
        /\ pc = "idle" => hist.postRan

\* The modifier `id` is in the engine's modifier list.
InList(id) == \E k \in 1 .. Len(modifiers) : modifiers[k].id = id

\* The modifier `id` set its remove flag in a hook of the current run.
FlaggedInRun(id) == hist.runs > 0 /\ hist.flagged[id].run = hist.runs

\* C15: a modifier that sets its own remove flag in a hook of step k still
\* receives every remaining modifier hook of step k, is out of the modifier
\* list before the first hook of step k+1, and receives no hook after that:
\* whenever the engine is about to deliver a modifier hook, a modifier
\* flagged in this step is in the list and one flagged in an earlier step
\* is not.
C15_RemoveFlagReaping ==
    \A id \in ModifierIds :
        (pc \in ModifierCalls /\ FlaggedInRun(id)) =>
            /\ hist.flagged[id].iter = gflow.iter => InList(id)
            /\ hist.flagged[id].iter < gflow.iter => ~InList(id)

\* An exception was raised by a call of the step loop of the current run.
RaisedInLoop == status = "thrown" /\ hist.looped /\ Len(trace) > 0

\* C16: when a non-recoverable error is raised inside the step loop, the
\* current run stops and starts no further call of a step, and the
\* post_integrate hooks have been executed when control is back at the
\* driver with the failure.
C16_ErrorRunsPostIntegrate ==
    RaisedInLoop =>
        /\ pc = "idle"
        /\ ~ENABLED StepNext
        /\ hist.postRan

\* C20: whenever the store raises needs_remake at any point of a step,
\* DomainBase::construct runs before the next interaction evaluation, and
\* the flag is never cleared without a construct having run since it was
\* raised: no interaction is evaluated, and the flag never falls, while a
\* raise is still waiting for its construct.
C20_RebuildFollowsRaise ==
    [][ /\ pc = "interact" => ~hist.pending
        /\ (needs_remake /\ ~needs_remake') => ~hist.pending ]_vars

\* The integrator is between pre_integrate and the end of a run in which it
\* adjusts dt, with bounds that are in order.
AdjustingInOrder ==
    /\ pc = "integrating"
    /\ integrator.adjust_dt
    /\ FLeq(integrator.min_dt, integrator.max_dt)

\* C17: with adjust_dt = true and min_dt <= max_dt, the time step satisfies
\* min_dt <= dt <= max_dt after pre_integrate and after every pre_step
\* call, whatever the maximum velocity and acceleration are.
C17_DtWithinBounds ==
    AdjustingInOrder =>
        /\ FLeq(integrator.min_dt, integrator.dt)
        /\ FLeq(integrator.dt, integrator.max_dt)

\* The integrator is in a run, and the calls of pre_step that passed the
\* gate (reset step_count and looked at the maxima) are hist.adjusts.
InRun == pc = "integrating" /\ status = "ok"

\* The gaps between consecutive adjustments are all `gap` calls.
GapsAre(gap) ==
    \A j \in 1 .. (Len(hist.adjusts) - 1) :
        hist.adjusts[j + 1] - hist.adjusts[j] = gap

\* With adjust_dt = false no pre_step call adjusts and dt stays as
\* pre_integrate left it; with adjust_dt = true the first pre_step adjusts.
FirstAndBypass ==
    /\ ~integrator.adjust_dt =>
          /\ hist.adjusts = << >>
          /\ integrator.dt = hist.startDt
    /\ (integrator.adjust_dt /\ hist.calls >= 1) => hist.adjusts[1] = 1

\* C18 as stated: with adjust_dt = true an adjustment is made on the first
\* pre_step after pre_integrate and then on every step_delay-th call, the
\* gap between consecutive adjustments being step_delay calls; with
\* adjust_dt = false pre_step never changes dt.
C18_AdjustEveryStepDelay ==
    InRun =>
        /\ FirstAndBypass
        /\ integrator.adjust_dt => GapsAre(integrator.step_delay)

\* C18, amended: with adjust_dt = true an adjustment is made on the first
\* pre_step after pre_integrate and then on every (step_delay + 1)-th call:
\* the gap between consecutive adjustments is step_delay + 1 calls and no
\* adjustment is overdue; with adjust_dt = false pre_step never changes dt.
C18_AdjustEveryStepDelayPlusOne ==
    InRun =>
        /\ FirstAndBypass
        /\ integrator.adjust_dt =>
              /\ GapsAre(integrator.step_delay + 1)
              /\ hist.calls >= 1 =>
                    hist.calls - hist.adjusts[Len(hist.adjusts)] <= integrator.step_delay

\* A run with a step delay of 2 in which the second adjustment has been
\* made, at the fourth call.
C18_Witness ==
    /\ InRun
    /\ integrator.adjust_dt
    /\ integrator.step_delay = 2
    /\ Len(hist.adjusts) = 2
    /\ hist.adjusts[2] = 4

\* Scenario S4: min_dt = 1e-4, max_dt = 1e-2, target_steps = 20, a
\* characteristic length of 0.1, the velocity criterion alone, and the last
\* pre_step call has adjusted.
S4Adjusted ==
    /\ InRun
    /\ integrator.adjust_dt
    /\ integrator.use_v
    /\ ~integrator.use_a
    /\ integrator.min_dt = Fin(100)
    /\ integrator.max_dt = Fin(10000)
    /\ integrator.target_steps = 20
    /\ integrator.characteristic_length = Fin(100000)
    /\ hist.calls >= 1
    /\ hist.adjusts[Len(hist.adjusts)] = hist.calls

\* The candidate of scenario S4 in units of 1e-6: 0.1/(1*20) = 5e-3 for
\* v_max = 1, 0.1/(100*20) = 5e-5 for v_max = 100, and dt_a = 1 for
\* v_max = 0, where dt_v is infinite.
S4Candidate ==
    CASE hist.mv = Fin(100) -> 5000
      [] hist.mv = Fin(10000) -> 50
      [] OTHER -> 1000000

\* The clamp of scenario S4 in units of 1e-6.
S4Clamp(n) == IF n > 10000 THEN 10000 ELSE IF n < 100 THEN 100 ELSE n

\* In scenario S4 an adjustment other than the first takes a lower
\* candidate directly and moves to 0.9*dt + 0.1*candidate for a larger one,
\* clamped.
S4LaterAdjust ==
    Len(hist.adjusts) >= 2 =>
        integrator.dt =
            IF S4Candidate < hist.prevDt.n
            THEN Fin(S4Clamp(S4Candidate))
            ELSE Fin(S4Clamp((9 * hist.prevDt.n + S4Candidate) \div 10))

\* C19 as stated: in scenario S4 the first adjustment after pre_integrate,
\* with v_max = 1, sets dt to the candidate 5e-3 without smoothing; a later
\* adjustment with v_max = 100 takes the candidate directly, and a larger
\* candidate moves dt to 0.9*dt + 0.1*candidate.
C19_FirstAdjustUnsmoothed ==
    S4Adjusted =>
        /\ (Len(hist.adjusts) = 1 /\ hist.mv = Fin(100)) => integrator.dt = Fin(5000)
        /\ S4LaterAdjust

\* C19, amended: in scenario S4 the first adjustment after pre_integrate,
\* with v_max = 1, starts from dt = min_dt = 1e-4 and is smoothed like any
\* other rise: dt = 0.9*1e-4 + 0.1*5e-3 = 5.9e-4; a later adjustment with
\* v_max = 100 takes the candidate 5e-5 directly, which the clamp raises to
\* 1e-4, and a larger candidate moves dt to 0.9*dt + 0.1*candidate.
C19_FirstAdjustSmoothed ==
    S4Adjusted =>
        /\ (Len(hist.adjusts) = 1 /\ hist.mv = Fin(100)) =>
              /\ hist.prevDt = Fin(100)
              /\ integrator.dt = Fin(590)
        /\ S4LaterAdjust
        /\ (Len(hist.adjusts) >= 2 /\ hist.mv = Fin(10000)) => integrator.dt = Fin(100)

\* Scenario S4 played: the first adjustment, with v_max = 1, has left
\* dt = 5.9e-4, and the next one, with v_max = 100, has just dropped dt to
\* 1e-4.
C19_Witness ==
    /\ S4Adjusted
    /\ Len(hist.adjusts) = 2
    /\ hist.mv = Fin(10000)
    /\ hist.prevDt = Fin(590)
    /\ integrator.dt = Fin(100)

\* ------------------------------------------------- more store properties

\* C29: clear_forces() changes only the force field: the position and the
\* velocity of every particle in [0, size) are the same after the call as
\* before it.
C29_ClearFKeepsXV ==
    [][ lastOp' = "clearF" =>
           \A i \in Slots : /\ vdata'[0][i] = vdata[0][i]
                            /\ vdata'[1][i] = vdata[1][i]
      ]_vars

\* -------------------------------------------------- observer properties

\* A run that entered the step loop has returned to the driver.
RunReturned == pc = "idle" /\ hist.runs >= 1 /\ hist.looped

\* C30: every observer that received pre_integrate at the start of a run
\* has received post_integrate when the run has ended, whatever the
\* start-recording time and the simulated time are.
C30_PrePostPaired ==
    RunReturned => hist.obsPost = hist.obsPre

\* ------------------------------------------------------- the domain alone

\* Calls of DomainBase::pre_forces on one domain.
MaxForces == 4

\* GFlow's boundary members next to those of GFlowNew: the bounds
\* [lo, hi) on every axis that setBounds left, setAllBCs(BCFlag::WRAP),
\* repulsion = 10, dissipation = 0, center_attraction = 0.  Boundary
\* conditions are "OPEN", "WRAP", "REFL" or "REPL".
GFlowWithBounds(lo, hi) ==
    LET more == [ bounds |-> [min |-> ConstVec(lo), max |-> ConstVec(hi)],
                  boundaryConditions |-> [d \in Dims |-> "WRAP"],
                  repulsion |-> 10, dissipation |-> 0, center_attraction |-> 0,
                  boundaryForce |-> 0, boundaryEnergy |-> 0 ]
    IN  [f \in DOMAIN GFlowNew \cup DOMAIN more |->
            IF f \in DOMAIN more THEN more[f] ELSE GFlowNew[f]]

\* GFlow::wrapPositions on the position array xs of a store of size sz:
\* fmod on the non-negative arguments the two branches hand it.
wrapPositions(xs, sz, g) ==
    LET wd(d) == g.bounds.max[d] - g.bounds.min[d]
        wrapped(x, d) ==
            IF x < g.bounds.min[d]
            THEN g.bounds.max[d] - ((g.bounds.min[d] - x) % wd(d))
            ELSE IF g.bounds.max[d] <= x
            THEN ((x - g.bounds.min[d]) % wd(d)) + g.bounds.min[d]
            ELSE x
    IN  [n \in DOMAIN xs |->
            IF n < sz
            THEN [d \in Dims |-> IF g.boundaryConditions[d] = "WRAP"
                                 THEN wrapped(xs[n][d], d) ELSE xs[n][d]]
            ELSE xs[n]]

\* DomainBase's snapshot members next to those of DomainNew: skin_depth,
\* sample_size = -1, sizeXVL = 0, xVL = nullptr; the decision type and the
\* step delay are what the scenario builder chose.  Lengths are in the
\* units of X.
DomainWithXVL(skin, type, steps) ==
    LET more == [ skin_depth |-> skin, sample_size |-> -1, sizeXVL |-> 0,
                  xVL |-> << >>, update_decision_type |-> type,
                  update_delay_steps |-> steps ]
    IN  [f \in DOMAIN DomainNew \cup DOMAIN more |->
            IF f \in DOMAIN more THEN more[f] ELSE DomainNew[f]]

\* The number of samples DomainBase::fillXVL takes of `number` particles.
Samples(h, num) ==
    IF h.sample_size > 0
    THEN (IF h.sample_size < num THEN h.sample_size ELSE num)
    ELSE num

\* DomainBase::fillXVL with setupXVL on the position array xs: xVL is
\* resized when number differs from sizeXVL (and a snapshot of fewer than
\* 10 entries sets mv_ratio_tolerance to 0.9), then xVL[i] takes
\* X(number-1-i) for i < samples.  xVL is indexed from 0.
fillXVL(h, xs, num) ==
    LET samples == Samples(h, num)
        h1 == IF num # h.sizeXVL
              THEN [h EXCEPT !.sizeXVL = samples,
                             !.mv_ratio_tolerance = IF samples < 10 THEN 900 ELSE @]
              ELSE h
    IN  [h1 EXCEPT !.xVL = [i \in 0 .. (h1.sizeXVL - 1) |->
                              IF i < samples THEN xs[num - 1 - i] ELSE h.xVL[i]]]

\* A variant of maxMotion that returns the largest distance itself, not
\* twice it.
maxMotionOneSided(h, xs, num, junk) ==
    LET at(i) == IF (num - 1 - i) \in DOMAIN xs THEN xs[num - 1 - i] ELSE junk
        sq(n) == n * n
        dsqr(i) == sq(h.xVL[i][0] - at(i)[0]) + sq(h.xVL[i][1] - at(i)[1])
        max_plausible == sq(10 * h.skin_depth)
        maxDSqr == MaxOver({ dsqr(i) : i \in { j \in 0 .. (h.sizeXVL - 1) :
                                                  dsqr(j) < max_plausible } })
    IN  ISqrt(maxDSqr * 10000, 0, 5000)

\* DomainBase::maxMotion in units of 0.01 of the unit of X: twice the
\* square root of the largest squared distance below (10 skin_depth)^2
\* between xVL[i] and X(number-1-i), i < sizeXVL.  A read outside the
\* position array gives junk.
maxMotion(h, xs, num, junk) ==
    LET at(i) == IF (num - 1 - i) \in DOMAIN xs THEN xs[num - 1 - i] ELSE junk
        sq(n) == n * n
        dsqr(i) == sq(h.xVL[i][0] - at(i)[0]) + sq(h.xVL[i][1] - at(i)[1])
        max_plausible == sq(10 * h.skin_depth)
        maxDSqr == MaxOver({ dsqr(i) : i \in { j \in 0 .. (h.sizeXVL - 1) :
                                                  dsqr(j) < max_plausible } })
    IN  2 * ISqrt(maxDSqr * 10000, 0, 5000)

\* What the history records of a domain on its own: the calls of
\* pre_forces, whether the last one ran the motion test and whether it
\* called construct(), how far each slot has moved since the last rebuild
\* (and how far the fastest had moved when pre_forces was called last), and
\* for every entry of xVL the global id of the particle it was taken from
\* and whether the last rebuild wrote it.
NoSnap ==
    [ calls |-> 0, tested |-> FALSE, built |-> FALSE,
      moved |-> [i \in 0 .. (MaxSize - 1) |-> 0], fastest |-> 0,
      ids |-> << >>, fresh |-> {} ]

\* The displacements one time step may give a particle, in units of X.
DriftInputs == { 0, 2, 3 }

\* What a read outside the position array may give.
JunkInputs == { ConstVec(0), ConstVec(50) }

\* A built scenario: two particles in the bounds [0, 100) with skin depth
\* 5, the decision by motion or by step count every 2 steps, with or
\* without an interaction.
DomainInit ==
    /\ \E ps \in Setups : Len(ps) > 0 /\ Populated(ps)
    /\ \E n \in {0, 1} : gflow = [GFlowWithBounds(0, 100) EXCEPT !.interactions = n]
    /\ integrator = IntegratorNew
    /\ \E type \in {0, 1} : handler = DomainWithXVL(5, type, 2)
    /\ modifiers = << >>
    /\ dataMaster = DataMasterNew
    /\ pc = "idle"
    /\ trace = << >>
    /\ hist = NoSnap

\* DomainBase::setSampleSize(s), between two steps
setSampleSize(s) ==
    /\ status = "ok"
    /\ pc \in {"idle", "rest"}
    /\ handler' = [handler EXCEPT !.sample_size = s]
    /\ UNCHANGED << storeVars, gflow, integrator, modifiers, dataMaster, pc, trace, hist >>

\* handler->pre_integrate() at the start of a run
domain_pre_integrate ==
    /\ status = "ok"
    /\ pc = "idle"
    /\ handler' = DomainBase_pre_integrate(handler)
    /\ pc' = "forces"
    /\ UNCHANGED << storeVars, gflow, integrator, modifiers, dataMaster, trace, hist >>

\* DomainBase::pre_forces with what it calls: check_needs_remake with
\* maxMotion, and either construct() (doParticleRemoval, wrapPositions, the
\* bookkeeping, fillXVL when the decision is by motion) or wrapPositions().
domain_pre_forces(junk) ==
    /\ status = "ok"
    /\ pc = "forces"
    /\ hist.calls < MaxForces
    /\ LET now == gflow.elapsed_time
           ratio == (10 * maxMotion(handler, vdata[0], _number, junk)) \div handler.skin_depth
           r == DomainBase_pre_forces(handler, now, _number, needs_remake,
                                      gflow.interactions, ratio)
           due == /\ _number >= 1
                  /\ ~needs_remake
                  /\ handler.update_decision_type = 0
                  /\ FLess(handler.update_delay, FSub(now, handler.last_update))
           w == IF r.construct THEN Compacted(World, _size) ELSE World
           done == r.construct /\ ~w.thrown
           xs == IF done \/ (due /\ ~r.construct)
                 THEN wrapPositions(w.vdata[0], _size, gflow) ELSE w.vdata[0]
           filled == done /\ r.h.update_decision_type = 0
           h1 == IF filled THEN fillXVL(Constructed(r.h, now), xs, w.number)
                 ELSE IF done THEN Constructed(r.h, now)
                 ELSE r.h
           samples == Samples(r.h, w.number)
       IN  /\ CommitWorld([w EXCEPT !.vdata[0] = xs])
           /\ handler' = h1
           /\ status' = IF w.thrown THEN "thrown" ELSE "ok"
           /\ pc' = IF w.thrown THEN "idle" ELSE "rest"
           /\ hist' = [hist EXCEPT
                         !.calls = @ + 1,
                         !.tested = /\ due
                                    /\ gflow.interactions > 0
                                    /\ ~FLess(handler.max_update_delay,
                                              FSub(now, handler.last_update)),
                         !.built = r.construct,
                         !.fastest = MaxOver({ hist.moved[i] : i \in DOMAIN hist.moved }),
                         !.moved = IF done THEN NoSnap.moved ELSE @,
                         !.ids = IF filled
                                 THEN [i \in 0 .. (h1.sizeXVL - 1) |->
                                         IF i < samples THEN w.idata[1][w.number - 1 - i]
                                         ELSE @[i]]
                                 ELSE @,
                         !.fresh = IF filled THEN 0 .. (samples - 1)
                                   ELSE IF done THEN {} ELSE @]
    /\ UNCHANGED << gflow, integrator, modifiers, dataMaster, trace >>

\* The rest of a step of GFlow::run as the domain sees it: the integrator
\* has moved particle i by dx along the first axis, the flag needs_remake
\* is cleared and the clock has advanced by the time step.
rest_of_step(i, dx) ==
    /\ status = "ok"
    /\ pc = "rest"
    /\ i \in 0 .. (_size - 1)
    /\ Type(i) >= 0
    /\ vdata' = [vdata EXCEPT ![0][i][0] = @ + dx]
    /\ needs_remake' = FALSE
    /\ gflow' = [gflow EXCEPT !.elapsed_time = FAdd(@, integrator.dt),
                              !.iter = @ + 1]
    /\ pc' = "forces"
    /\ hist' = [hist EXCEPT !.moved[i] = @ + dx]
    /\ UNCHANGED << sdata, idata, _number, _size, _capacity, next_global_id,
                    id_map, remove_list, status, lastOp, lastArg, trip,
                    integrator, handler, modifiers, dataMaster, trace >>

\* A modifier's hook calls SimData::markForRemoval(id) during a step.
mark_in_step(id) ==
    /\ pc = "rest"
    /\ markForRemoval(id)

DomainNext ==
    \/ \E s \in {-1, 1} : setSampleSize(s)
    \/ domain_pre_integrate
    \/ \E junk \in JunkInputs : domain_pre_forces(junk)
    \/ \E i \in 0 .. (MaxSize - 1), dx \in DriftInputs : rest_of_step(i, dx)
    \/ \E id \in 0 .. (MaxSize - 1) : mark_in_step(id)

DomainSpec == DomainInit /\ [][DomainNext]_vars

\* ------------------------------------------------------ domain properties

\* The step is a call of DomainBase::pre_forces.
PreForcesStep == hist.calls' = hist.calls + 1

\* Scenario S3 at a call of pre_forces that has run the motion test: the
\* decision is by motion, skin_depth is 0.05 (5 units of X), motion_factor
\* is 1, no particle is marked for removal and the last rebuild sampled
\* every particle.
S3Tested ==
    /\ hist.tested'
    /\ handler.update_decision_type = 0
    /\ handler.skin_depth = 5
    /\ handler.motion_factor = 1000
    /\ remove_list = {}
    /\ hist.fresh = 0 .. (_number - 1)

\* construct() was called by the step and number_of_remakes went up by
\* exactly one.
RebuiltOnce ==
    /\ hist.built'
    /\ handler'.number_of_remakes = handler.number_of_remakes + 1

\* C21 as stated: in scenario S3, when the fastest particle has moved 0.03
\* since the last rebuild, pre_forces does not call construct(); when it
\* has moved 0.06, pre_forces calls construct() and number_of_remakes
\* increases by exactly one.
C21_S3Thresholds ==
    [][ PreForcesStep /\ S3Tested =>
           /\ hist.fastest' = 3 => ~hist.built'
           /\ hist.fastest' = 6 => RebuiltOnce
      ]_vars

\* C21, amended: in scenario S3, at a pre_forces that runs the motion test,
\* a fastest particle that has moved 0.02 since the last rebuild
\* (motion_ratio = 2 * 0.02 / 0.05 = 0.8) causes no call of construct();
\* one that has moved 0.03 (motion_ratio 1.2) or 0.06 makes pre_forces call
\* construct(), and number_of_remakes increases by exactly one.
C21_S3ThresholdsWithFactorTwo ==
    [][ PreForcesStep /\ S3Tested =>
           /\ hist.fastest' = 2 => ~hist.built' /\ UNCHANGED handler.number_of_remakes
           /\ hist.fastest' \in {3, 6} => RebuiltOnce
      ]_vars

\* A motion test of scenario S3 has seen a displacement of 0.03 and
\* construct() was called.
C21_Witness ==
    /\ hist.tested
    /\ hist.built
    /\ hist.fastest = 3
    /\ handler.skin_depth = 5
    /\ handler.motion_factor = 1000
    /\ handler.number_of_remakes = 2
    /\ remove_list = {}
    /\ handler.sizeXVL = _number

\* C22: in by-step-count mode construct() runs on exactly every
\* update_delay_steps-th call of pre_forces since the last rebuild, whatever
\* the particles did and whether or not an interaction exists, and the step
\* counter is zero again after each rebuild.
C22_RebuildEveryKthCall ==
    [][ PreForcesStep /\ handler.update_decision_type = 1 =>
           /\ hist.built' <=>
                 handler.steps_since_last_remake + 1 = handler.update_delay_steps
           /\ hist.built' => handler'.steps_since_last_remake = 0
      ]_vars

\* The next call of pre_forces runs the motion test: the store holds a
\* particle and does not ask for a rebuild, the decision is by motion, the
\* update delay has passed, an interaction exists and max_update_delay has
\* not passed.
MotionTestDue ==
    /\ status = "ok"
    /\ pc = "forces"
    /\ _number >= 1
    /\ ~needs_remake
    /\ handler.update_decision_type = 0
    /\ FLess(handler.update_delay, FSub(gflow.elapsed_time, handler.last_update))
    /\ gflow.interactions > 0
    /\ ~FLess(handler.max_update_delay, FSub(gflow.elapsed_time, handler.last_update))

\* C25: whenever the motion test runs, the snapshot array is no longer than
\* the particle count, every entry the test reads was written at the last
\* rebuild, and the index it reads for entry i lies in [0, size) and holds
\* the particle whose position entry i recorded.
C25_SnapshotMatchesStore ==
    MotionTestDue =>
        /\ handler.sizeXVL <= _number
        /\ \A i \in 0 .. (handler.sizeXVL - 1) :
              /\ i \in hist.fresh
              /\ (_number - 1 - i) \in 0 .. (_size - 1)
              /\ idata[1][_number - 1 - i] = hist.ids[i]

\* -------------------------------------------------- the boundaries alone

\* Calls of the boundary functions on one engine.
MaxBoundaryCalls == 2
\* Moves of particles between the calls.
MaxDrifts == 2

\* What the history records of the boundary functions: the calls and the
\* moves so far, and the function called last.
NoBoundaryCalls == [ calls |-> 0, drifts |-> 0, last |-> "none" ]

\* The displacements that take a particle at 1 or 2 onto a bound of
\* [0, BoundsWidth), just outside it, and one or two periods outside it.
BoundaryDriftInputs == { -9, -5, -2, -1, 2, 3, 7 }

\* A built scenario: two particles inside the bounds [0, BoundsWidth), wrap
\* on every axis.
BoundaryInit ==
    /\ \E ps \in Setups : Len(ps) > 0 /\ Populated(ps)
    /\ gflow = GFlowWithBounds(0, BoundsWidth)
    /\ integrator = IntegratorNew
    /\ handler = DomainNew
    /\ modifiers = << >>
    /\ dataMaster = DataMasterNew
    /\ pc = "idle"
    /\ trace = << >>
    /\ hist = NoBoundaryCalls

\* GFlow::setBC(d, type)
setBC(d, type) ==
    /\ status = "ok"
    /\ hist.calls = 0
    /\ gflow' = [gflow EXCEPT !.boundaryConditions[d] = type]
    /\ UNCHANGED << storeVars, integrator, handler, modifiers, dataMaster, pc, trace, hist >>

\* The integrator's drift moves particle i by dx along the first axis.
boundary_drift(i, dx) ==
    /\ status = "ok"
    /\ hist.drifts < MaxDrifts
    /\ i \in 0 .. (_size - 1)
    /\ vdata' = [vdata EXCEPT ![0][i][0] = @ + dx]
    /\ hist' = [hist EXCEPT !.drifts = @ + 1, !.last = "drift"]
    /\ UNCHANGED << sdata, idata, _number, _size, _capacity, next_global_id,
                    id_map, remove_list, needs_remake, status, lastOp, lastArg, trip,
                    gflow, integrator, handler, modifiers, dataMaster, pc, trace >>

\* What a boundary function leaves: the vector data vd and the engine g.
BoundaryCall(name, vd, g) ==
    /\ status = "ok"
    /\ hist.calls < MaxBoundaryCalls
    /\ vdata' = vd
    /\ gflow' = g
    /\ hist' = [hist EXCEPT !.calls = @ + 1, !.last = name]
    /\ UNCHANGED << sdata, idata, _number, _size, _capacity, next_global_id,
                    id_map, remove_list, needs_remake, status, lastOp, lastArg, trip,
                    integrator, handler, modifiers, dataMaster, pc, trace >>

\* GFlow::wrapPositions()
wrapPositions_call ==
    BoundaryCall("wrap", [vdata EXCEPT ![0] = wrapPositions(@, _size, gflow)], gflow)

\* GFlow::reflectPositions(): on a REFL axis a position below min or above
\* max is mirrored at the bound and the velocity component changes sign.
reflectPositions ==
    LET lo(d) == gflow.bounds.min[d]
        hi(d) == gflow.bounds.max[d]
        out(n, d) == /\ gflow.boundaryConditions[d] = "REFL"
                     /\ n < _size
                     /\ (vdata[0][n][d] < lo(d) \/ hi(d) < vdata[0][n][d])
        xs == [n \in DOMAIN vdata[0] |-> [d \in Dims |->
                 IF ~out(n, d) THEN vdata[0][n][d]
                 ELSE IF vdata[0][n][d] < lo(d) THEN 2 * lo(d) - vdata[0][n][d]
                 ELSE 2 * hi(d) - vdata[0][n][d]]]
        vs == [n \in DOMAIN vdata[1] |-> [d \in Dims |->
                 IF out(n, d) THEN -vdata[1][n][d] ELSE vdata[1][n][d]]]
    IN  BoundaryCall("reflect", [vdata EXCEPT ![0] = xs, ![1] = vs], gflow)

\* GFlow::repulsePositions(): boundaryForce and boundaryEnergy start from
\* zero; on a REPL axis a particle dx beyond a bound is pushed back with
\* F = repulsion*dx + dissipation*clamp(velocity towards the outside), which
\* is added to boundaryForce, and 0.5*repulsion*dx^2 to boundaryEnergy.
repulsePositions ==
    LET lo(d) == gflow.bounds.min[d]
        hi(d) == gflow.bounds.max[d]
        clamp(v) == IF v < 0 THEN 0 ELSE v
        below(n, d) == vdata[0][n][d] < lo(d)
        above(n, d) == ~below(n, d) /\ hi(d) < vdata[0][n][d]
        dx(n, d) == IF below(n, d) THEN lo(d) - vdata[0][n][d]
                    ELSE IF above(n, d) THEN vdata[0][n][d] - hi(d) ELSE 0
        push(n, d) ==
            IF gflow.boundaryConditions[d] # "REPL" \/ n >= _size THEN 0
            ELSE IF below(n, d)
            THEN gflow.repulsion * dx(n, d) + gflow.dissipation * clamp(-vdata[1][n][d])
            ELSE IF above(n, d)
            THEN gflow.repulsion * dx(n, d) + gflow.dissipation * clamp(vdata[1][n][d])
            ELSE 0
        RECURSIVE Sum(_, _)
        Sum(f(_, _), k) ==
            IF k >= _size * sim_dimensions THEN 0
            ELSE f(k \div sim_dimensions, k % sim_dimensions) + Sum(f, k + 1)
        energy(n, d) == IF push(n, d) = 0 THEN 0
                        ELSE (gflow.repulsion * dx(n, d) * dx(n, d)) \div 2
        fs == [n \in DOMAIN vdata[2] |-> [d \in Dims |->
                 IF n < _size /\ below(n, d) THEN vdata[2][n][d] + push(n, d)
                 ELSE vdata[2][n][d] - push(n, d)]]
    IN  BoundaryCall("repulse", [vdata EXCEPT ![2] = fs],
                     [gflow EXCEPT !.boundaryForce = Sum(push, 0),
                                   !.boundaryEnergy = Sum(energy, 0)])

\* GFlow::attractPositions(): center_attraction is zero, the function
\* returns at once.
attractPositions ==
    /\ gflow.center_attraction = 0
    /\ BoundaryCall("attract", vdata, gflow)

\* A modifier's hook calls SimData::markForRemoval(id).
boundary_mark(id) ==
    /\ hist.calls = 0
    /\ markForRemoval(id)

BoundaryNext ==
    \/ \E d \in Dims, type \in {"OPEN", "WRAP", "REFL", "REPL"} : setBC(d, type)
    \/ \E i \in 0 .. (MaxSize - 1), dx \in BoundaryDriftInputs : boundary_drift(i, dx)
    \/ \E id \in 0 .. (MaxSize - 1) : boundary_mark(id)
    \/ wrapPositions_call
    \/ reflectPositions
    \/ repulsePositions
    \/ attractPositions

BoundarySpec == BoundaryInit /\ [][BoundaryNext]_vars

\* ---------------------------------------------------- boundary properties

\* C23: wrapping maps the coordinate x of every particle on a wrap axis to
\* ((x - min) mod (max - min)) + min, which lies in [min, max), also for x
\* on a bound and for x more than one period outside; coordinates on the
\* other axes stay as they are.
C23_WrapIntoBounds ==
    [][ hist'.last = "wrap" /\ hist'.calls = hist.calls + 1 =>
           \A n \in Slots, d \in Dims :
              LET lo == gflow.bounds.min[d]
                  hi == gflow.bounds.max[d]
              IN  IF gflow.boundaryConditions[d] = "WRAP"
                  THEN /\ vdata'[0][n][d] = ((vdata[0][n][d] - lo) % (hi - lo)) + lo
                       /\ lo <= vdata'[0][n][d]
                       /\ vdata'[0][n][d] < hi
                  ELSE vdata'[0][n][d] = vdata[0][n][d]
      ]_vars

\* The slots of the store that hold a tombstone.
Tombstones == { n \in Slots : Type(n) < 0 }

\* C26: every boundary function skips the tombstoned slots: their
\* position, velocity and force are the same after the call as before, and
\* boundaryForce and boundaryEnergy are what the live particles alone give,
\* which is zero when no live particle lies outside the bounds.
C26_TombstonesSkipped ==
    [][ hist'.calls = hist.calls + 1 =>
           /\ \A n \in Tombstones :
                 /\ vdata'[0][n] = vdata[0][n]
                 /\ vdata'[1][n] = vdata[1][n]
                 /\ vdata'[2][n] = vdata[2][n]
           /\ (/\ hist'.last = "repulse"
               /\ \A n \in Live, d \in Dims :
                     /\ gflow.bounds.min[d] <= vdata[0][n][d]
                     /\ vdata[0][n][d] <= gflow.bounds.max[d])
              => gflow'.boundaryForce = 0 /\ gflow'.boundaryEnergy = 0
      ]_vars

\* ------------------------------------------------------ the cell grid alone

\* The axis lengths a scenario may give the bounds, in the units of Sg;
\* with the cutoffs 3 and 4 of the scenarios every width bounds.wd(d)/dims[d]
\* is a whole number.
WidthInputs == { 2, 6, 9, 12 }

\* The Domain of GFlowSim4 before initialize(): no cells; the skin depth is
\* what the scenario builder chose and the cutoff factor is 1.
GridNew(skin) ==
    [ skinDepth |-> skin, cutoffFactor |-> 1, minCutoff |-> 0, cutoff |-> 0,
      dims |-> ConstVec(0), widths |-> ConstVec(0),
      harmonic_up |-> [d \in Dims |-> FALSE], harmonic_down |-> [d \in Dims |-> FALSE],
      extended_min |-> ConstVec(0), extended_max |-> ConstVec(0),
      initialized |-> FALSE ]

\* The loop of Domain::initialize over sg[0 .. number-1] from index i on:
\* the largest radius, and what the loop takes for the second largest.
RECURSIVE CutRadii(_, _, _, _)
CutRadii(sg, num, i, acc) ==
    IF i >= num THEN acc
    ELSE CutRadii(sg, num, i + 1,
                  IF sg[i] > acc.maxCutR THEN [acc EXCEPT !.maxCutR = sg[i]]
                  ELSE IF sg[i] > acc.secCutR THEN [acc EXCEPT !.secCutR = sg[i]]
                  ELSE acc)

\* A variant of GridDims that rounds the number of cells up.
GridDimsRoundedUp(wd, cutoff) ==
    LET n == (wd + cutoff - 1) \div cutoff
        m == IF n < 1 THEN 1 ELSE n
    IN  IF m = 2 THEN 1 ELSE m

\* The number of cells Domain::initialize gives an axis of length wd:
\* static_cast<int>(max(1, wd / cutoff)), and 1 instead of 2.
GridDims(wd, cutoff) ==
    LET n == wd \div cutoff
        m == IF n < 1 THEN 1 ELSE n
    IN  IF m = 2 THEN 1 ELSE m

\* Domain::initialize for the engine g and the radii sg of num particles:
\* the cutoff, the cells and widths of every axis, and one more cell on
\* either side of an axis that wraps.
Grid_initialize(h, g, sg, num) ==
    LET wd(d) == g.bounds.max[d] - g.bounds.min[d]
        cut == CutRadii(sg, num, 0, [maxCutR |-> 0, secCutR |-> 0])
        minCutoff == cut.maxCutR + cut.secCutR + h.skinDepth
        cutoff == minCutoff * h.cutoffFactor
        n(d) == GridDims(wd(d), cutoff)
        w(d) == wd(d) \div n(d)
        harmonic(d) == g.boundaryConditions[d] = "WRAP"
    IN  IF wd(0) = 0 THEN h
        ELSE [h EXCEPT !.minCutoff = minCutoff,
                       !.cutoff = cutoff,
                       !.dims = [d \in Dims |-> IF harmonic(d) THEN n(d) + 2 ELSE n(d)],
                       !.widths = [d \in Dims |-> w(d)],
                       !.harmonic_up = [d \in Dims |-> harmonic(d)],
                       !.harmonic_down = [d \in Dims |-> harmonic(d)],
                       !.extended_min = [d \in Dims |-> IF harmonic(d)
                                           THEN g.bounds.min[d] - w(d) ELSE g.bounds.min[d]],
                       !.extended_max = [d \in Dims |-> IF harmonic(d)
                                           THEN g.bounds.max[d] + w(d) ELSE g.bounds.max[d]],
                       !.initialized = TRUE]

\* A built scenario: two particles, bounds that start at 0, wrap on every
\* axis, a skin depth of 1 or 2.
GridInit ==
    /\ \E ps \in Setups : Len(ps) > 0 /\ Populated(ps)
    /\ \E hi \in WidthInputs : gflow = GFlowWithBounds(0, hi)
    /\ integrator = IntegratorNew
    /\ \E skin \in {1, 2} : handler = GridNew(skin)
    /\ modifiers = << >>
    /\ dataMaster = DataMasterNew
    /\ pc = "idle"
    /\ trace = << >>
    /\ hist = NoBoundaryCalls

\* GFlow::setBounds with a new upper bound on axis d
setBounds(d, hi) ==
    /\ status = "ok"
    /\ hist.calls = 0
    /\ gflow' = [gflow EXCEPT !.bounds.max[d] = hi]
    /\ UNCHANGED << storeVars, integrator, handler, modifiers, dataMaster, pc, trace, hist >>

\* Domain::initialize()
initialize ==
    /\ status = "ok"
    /\ hist.calls = 0
    /\ handler' = Grid_initialize(handler, gflow, sdata[0], _number)
    /\ hist' = [hist EXCEPT !.calls = @ + 1, !.last = "initialize"]
    /\ UNCHANGED << storeVars, gflow, integrator, modifiers, dataMaster, pc, trace >>

GridNext ==
    \/ \E d \in Dims, type \in {"OPEN", "WRAP", "REFL"} : setBC(d, type)
    \/ \E d \in Dims, hi \in WidthInputs : setBounds(d, hi)
    \/ initialize

GridSpec == GridInit /\ [][GridNext]_vars

\* -------------------------------------------------------- grid properties

\* The length of axis d of the simulation bounds.
AxisLength(d) == gflow.bounds.max[d] - gflow.bounds.min[d]

\* C24 as stated: after the grid is initialised every axis k has
\* w_k >= cutoff and dims_k * w_k = the axis length, whatever the boundary
\* condition and the ratio of axis length to cutoff.
C24_GridCoversBounds ==
    handler.initialized =>
        \A d \in Dims :
            /\ handler.widths[d] >= handler.cutoff
            /\ handler.dims[d] * handler.widths[d] = AxisLength(d)

\* C24, amended: after the grid is initialised, every axis k that is at
\* least as long as the cutoff has w_k >= cutoff, a shorter axis has one
\* cell as wide as the axis, and the cells inside the bounds cover the axis
\* exactly: dims_k * w_k = the axis length on an axis that does not wrap,
\* and (dims_k - 2) * w_k = the axis length on a wrap axis, where dims_k
\* counts one harmonic cell on either side.
C24_GridCoversBoundsInside ==
    handler.initialized =>
        \A d \in Dims :
            LET inside == IF gflow.boundaryConditions[d] = "WRAP"
                          THEN handler.dims[d] - 2 ELSE handler.dims[d]
            IN  /\ AxisLength(d) >= handler.cutoff => handler.widths[d] >= handler.cutoff
                /\ AxisLength(d) < handler.cutoff =>
                      inside = 1 /\ handler.widths[d] = AxisLength(d)
                /\ inside * handler.widths[d] = AxisLength(d)

\* A grid was initialised with a wrap axis of three cells inside the bounds
\* and a reflecting axis whose length is between two and three cutoffs.
C24_Witness ==
    /\ handler.initialized
    /\ gflow.boundaryConditions[0] = "WRAP"
    /\ handler.dims[0] = 5
    /\ 2 * handler.cutoff <= AxisLength(1)
    /\ AxisLength(1) < 3 * handler.cutoff
    /\ handler.dims[1] = 1
    /\ gflow.boundaryConditions[1] = "REFL"

\* ------------------------------------------------ the pair interactions

\* Calls of interact() on one scenario.
MaxInteracts == 2

\* The pairs of particles a scenario places in the bounds [0, BoundsWidth):
\* side by side along an axis at distance 1 (in contact, the radii are 1),
\* at distance 2 (apart), or at distance 3 across a wrapping bound; with
\* these the distance of every interacting pair is a whole number.
PairSetups ==
    LET places == { << << 1, 1 >>, << 2, 1 >> >>, << << 1, 1 >>, << 1, 2 >> >>,
                    << << 1, 1 >>, << 3, 1 >> >>, << << 0, 1 >>, << 3, 1 >> >> }
    IN  { << [x |-> xs[1], v |-> va, sg |-> 1, im |-> ia, type |-> 0],
             [x |-> xs[2], v |-> vb, sg |-> 1, im |-> ib, type |-> 1] >> :
            xs \in places,
            va \in { << 1, 0 >>, << 0, 0 >> }, vb \in { << 0, 0 >>, << -1, 0 >>, << 1, 0 >> },
            ia \in { 1, 2 }, ib \in { 1, 2 } }

\* A position or velocity << a, b >> as a vector over Dims.
AsVec(s) == [d \in Dims |-> s[d + 1]]

\* The displacement from particle id2 to particle id1 with the harmonic
\* correction on the wrap axes, normalised when it is not zero, with the
\* squared distance and the distance.
PairNormal(xs, g, id1, id2) ==
    LET raw(d) == xs[id1][d] - xs[id2][d]
        bnd(d) == g.bounds.max[d] - g.bounds.min[d]
        dis(d) == IF g.boundaryConditions[d] = "WRAP" /\ bnd(d) - Abs(raw(d)) < Abs(raw(d))
                  THEN (IF raw(d) > 0 THEN -(bnd(d) - Abs(raw(d))) ELSE bnd(d) - Abs(raw(d)))
                  ELSE raw(d)
        rsqr == dis(0) * dis(0) + dis(1) * dis(1)
        r == ISqrt(rsqr, 0, 2 * BoundsWidth)
    IN  [ rsqr |-> rsqr, r |-> r,
          n |-> [d \in Dims |-> IF r = 0 THEN 0 ELSE dis(d) \div r] ]

\* HardSphere_VerletPairs_2d::interact() from entry i of the verlet list on
\* (and HardSphere::calculateForces of GFlowSim4, which does not look at
\* the types): a pair closer than the sum of its radii gets the force
\* repulsion*(sg1 + sg2 - r) along the normal, +F on id1 and -F on id2.
RECURSIVE HardSphere_interact(_, _, _, _, _, _, _, _)
HardSphere_interact(vd, sd, idt, g, verlet, i, repulsion, checkTypes) ==
    IF i + 1 > Len(verlet) THEN vd
    ELSE LET id1 == verlet[i]
             id2 == verlet[i + 1]
             p == PairNormal(vd[0], g, id1, id2)
             sum == sd[0][id1] + sd[0][id2]
             magnitude == repulsion * (sum - p.r)
             skip == \/ checkTypes /\ (idt[0][id1] < 0 \/ idt[0][id2] < 0)
                     \/ ~(p.rsqr < sum * sum)
             vd1 == IF skip THEN vd
                    ELSE [vd EXCEPT ![2][id1] = [d \in Dims |-> @[d] + magnitude * p.n[d]],
                                    ![2][id2] = [d \in Dims |-> @[d] - magnitude * p.n[d]]]
         IN  HardSphere_interact(vd1, sd, idt, g, verlet, i + 2, repulsion, checkTypes)

\* HardSphere_Reflecting_2d::interact() from entry i of the verlet list
\* on: of a pair in contact whose particles approach each other, each
\* velocity loses twice its own component along the normal.
RECURSIVE HardSphere_Reflecting_interact(_, _, _, _, _, _)
HardSphere_Reflecting_interact(vd, sd, idt, g, verlet, i) ==
    IF i + 1 > Len(verlet) THEN vd
    ELSE LET id1 == verlet[i]
             id2 == verlet[i + 1]
             p == PairNormal(vd[0], g, id1, id2)
             sum == sd[0][id1] + sd[0][id2]
             v1 == vd[1][id1][0] * p.n[0] + vd[1][id1][1] * p.n[1]
             v2 == vd[1][id2][0] * p.n[0] + vd[1][id2][1] * p.n[1]
             dv(d) == vd[1][id1][d] - vd[1][id2][d]
             skip == \/ idt[0][id1] < 0 \/ idt[0][id2] < 0
                     \/ ~(p.rsqr < sum * sum)
                     \/ p.n[0] * dv(0) + p.n[1] * dv(1) > 0
             vd1 == IF skip THEN vd
                    ELSE [vd EXCEPT ![1][id1] = [d \in Dims |-> @[d] - 2 * v1 * p.n[d]],
                                    ![1][id2] = [d \in Dims |-> @[d] - 2 * v2 * p.n[d]]]
         IN  HardSphere_Reflecting_interact(vd1, sd, idt, g, verlet, i + 2)

\* A built scenario: a pair of particles in the bounds, wrap on every axis,
\* and the pair in the verlet list (the list is indexed from 1).
InteractInit ==
    /\ \E ps \in PairSetups :
          Populated(<< [ps[1] EXCEPT !.x = AsVec(@), !.v = AsVec(@)],
                       [ps[2] EXCEPT !.x = AsVec(@), !.v = AsVec(@)] >>)
    /\ gflow = GFlowWithBounds(0, BoundsWidth)
    /\ integrator = IntegratorNew
    /\ handler = [ verlet |-> << 0, 1 >> ]
    /\ modifiers = << >>
    /\ dataMaster = DataMasterNew
    /\ pc = "idle"
    /\ trace = << >>
    /\ hist = NoBoundaryCalls

\* interact() of the plug-in `kind`
interact_call(kind) ==
    /\ status = "ok"
    /\ hist.calls < MaxInteracts
    /\ vdata' = CASE kind = "HardSphere_VerletPairs_2d" ->
                       HardSphere_interact(vdata, sdata, idata, gflow, handler.verlet, 1,
                                           10 * gflow.repulsion, TRUE)
                  [] kind = "HardSphere" ->
                       HardSphere_interact(vdata, sdata, idata, gflow, handler.verlet, 1,
                                           gflow.repulsion, FALSE)
                  [] kind = "HardSphere_Reflecting_2d" ->
                       HardSphere_Reflecting_interact(vdata, sdata, idata, gflow,
                                                      handler.verlet, 1)
    /\ hist' = [hist EXCEPT !.calls = @ + 1, !.last = kind]
    /\ UNCHANGED << sdata, idata, _number, _size, _capacity, next_global_id,
                    id_map, remove_list, needs_remake, status, lastOp, lastArg, trip,
                    gflow, integrator, handler, modifiers, dataMaster, pc, trace >>

InteractNext ==
    \/ \E kind \in {"HardSphere_VerletPairs_2d", "HardSphere", "HardSphere_Reflecting_2d"} :
          interact_call(kind)
    \/ \E id \in 0 .. (MaxSize - 1) : boundary_mark(id)

InteractSpec == InteractInit /\ [][InteractNext]_vars

\* -------------------------------------------------- interaction properties

\* The change of F(i) and of V(i) along axis d in the step.
DeltaF(i, d) == vdata'[2][i][d] - vdata[2][i][d]
DeltaV(i, d) == vdata'[1][i][d] - vdata[1][i][d]

\* C27: one call of interact() of any pair plug-in gives the two particles
\* of the pair equal and opposite momentum changes: the forces it adds
\* cancel, and so do the velocity changes weighted with the masses 1/Im,
\* so the total momentum stays what it was.
C27_MomentumConserved ==
    [][ hist'.calls = hist.calls + 1 /\ _size = 2 =>
           \A d \in Dims :
              /\ DeltaF(0, d) + DeltaF(1, d) = 0
              /\ Im(1) * DeltaV(0, d) + Im(0) * DeltaV(1, d) = 0
      ]_vars

\* ------------------------------------------------- velocity Verlet alone

\* Particles in the arrays the integrator works on.
MaxKickParticles == 3
\* Calls of pre_forces and post_forces on one integrator.
MaxKicks == 2

\* The half kick of VelocityVerlet on the flat arrays a.v, a.f (number *
\* DIMENSIONS entries) and a.im: with simd_data_size = 0 (SIMD_NONE) the
\* loop v[i] += hdt*im[i/DIMENSIONS]*f[i]; otherwise blocks of
\* simd_data_size entries from i = 0 while i < number*DIMENSIONS -
\* simd_data_size get v += (im[0]*hdt)*f, and the left-over entries the
\* scalar update.  hdt is a whole number for the time steps of the
\* scenarios.
HalfKick(a) ==
    LET hdt == a.dt \div 2
        n == a.number * sim_dimensions
        s == a.simd_data_size
        inBlock(k) == s > 0 /\ (k \div s) * s < n - s
    IN  [k \in 0 .. (n - 1) |->
            IF inBlock(k) THEN a.v[k] + (a.im[0] * hdt) * a.f[k]
            ELSE a.v[k] + hdt * a.im[k \div sim_dimensions] * a.f[k]]

\* The VelocityVerlet of GFlowSim4 with the arrays of its simData: dt = 2,
\* one to MaxKickParticles particles at rest at the origin with inverse
\* masses 1 or 2 and no force yet; built without SIMD or with vectors of 2
\* or 4 entries.
KickInit ==
    /\ \E ps \in Setups : Len(ps) > 0 /\ Populated(ps)
    /\ gflow = GFlowNew
    /\ \E n \in 1 .. MaxKickParticles, s \in {0, 2, 4} :
          \E im \in [0 .. (n - 1) -> {1, 2}] :
             integrator = [ dt |-> 2, simd_data_size |-> s, number |-> n, im |-> im,
                            x |-> [k \in 0 .. (n * sim_dimensions - 1) |-> 0],
                            v |-> [k \in 0 .. (n * sim_dimensions - 1) |-> 0],
                            f |-> [k \in 0 .. (n * sim_dimensions - 1) |-> 0] ]
    /\ handler = DomainNew
    /\ modifiers = << >>
    /\ dataMaster = DataMasterNew
    /\ pc = "idle"
    /\ trace = << >>
    /\ hist = NoBoundaryCalls

\* A call of the integrator that leaves the arrays `it`.
Kicked(name, it) ==
    /\ status = "ok"
    /\ hist.calls < MaxKicks
    /\ integrator' = it
    /\ hist' = [hist EXCEPT !.calls = @ + 1, !.last = name]
    /\ UNCHANGED << storeVars, gflow, handler, modifiers, dataMaster, pc, trace >>

\* VelocityVerlet::pre_forces(): the first half kick, then x += dt*v on
\* every entry (the vector loop and its left-over loop do the same).
VelocityVerlet_pre_forces ==
    LET v1 == HalfKick(integrator)
    IN  Kicked("pre_forces",
               [integrator EXCEPT !.v = v1,
                                  !.x = [k \in DOMAIN @ |-> @[k] + integrator.dt * v1[k]]])

\* VelocityVerlet::post_forces(): the second half kick.
VelocityVerlet_post_forces ==
    Kicked("post_forces", [integrator EXCEPT !.v = HalfKick(integrator)])

\* An interaction writes a unit force on entry k of the force array.
write_force(k) ==
    /\ status = "ok"
    /\ hist.calls < MaxKicks
    /\ k \in DOMAIN integrator.f
    /\ integrator.f[k] = 0
    /\ integrator' = [integrator EXCEPT !.f[k] = 1]
    /\ UNCHANGED << storeVars, gflow, handler, modifiers, dataMaster, pc, trace, hist >>

KickNext ==
    \/ VelocityVerlet_pre_forces
    \/ VelocityVerlet_post_forces
    \/ \E k \in 0 .. (MaxKickParticles * sim_dimensions - 1) : write_force(k)

KickSpec == KickInit /\ [][KickNext]_vars

\* ------------------------------------------------------- kick properties

\* C28: a half kick changes every velocity component of particle i by
\* (dt/2) * Im[i] * F[i], with the inverse mass of particle i itself, in
\* the vector loop and in its left-over loop as in the scalar loop, for
\* every number of particles and every assignment of inverse masses.
C28_KickUsesOwnMass ==
    [][ hist'.calls = hist.calls + 1 =>
           \A k \in DOMAIN integrator.v :
              integrator'.v[k] =
                  integrator.v[k]
                    + (integrator.dt \div 2) * integrator.im[k \div sim_dimensions]
                        * integrator.f[k]
      ]_vars

====
